---------------------------- MODULE Spec2Model ----------------------------
(***************************************************************************)
(* A model of the ML parser service: the header normalizer and mapping     *)
(* validator, the inline inference client with its retry loop              *)
(* (src/unnamed/part_001), the pull-model client with its polling loop     *)
(* (src/server.js), the two mailers, and the POST /api/jobs handler of     *)
(* both server variants with its background task.                          *)
(*                                                                         *)
(* Strings that the code inspects are sequences: a header is a sequence of *)
(* one-character strings, an error message or response body is a sequence  *)
(* of lower-case words.                                                    *)
(***************************************************************************)
EXTENDS Integers, Sequences, FiniteSets, TLC

VARIABLES
    vIn,        \* validateMapping: the call's arguments (mapping, columns)
    vOut,       \* validateMapping: the value returned, once called
    variant,    \* the server deployed: "pull" (src/server.js) or "inline" (part_001)
    mailer,     \* the ./mailer deployed: "smtp" (src/mailer.js) or "gmail" (part_000)
    retries,    \* INFERENCE_RETRIES, the configured maximum attempt count
    TEMP_FILES, \* server.js: token -> {buffer, filename, mime, expiresAt}
    now,        \* Date.now()
    pc,         \* per job: the await its handler or background task is suspended at
    req,        \* per job: the POST /api/jobs request
    resp,       \* per job: the HTTP response sent to the caller
    jobId,      \* per job: whether a job identifier was minted
    log,        \* per job: the calls made and events seen, in order
    fetchSt,    \* per job: fetchJsonWithRetry's attempt, lastErr and what it returned
    waitSt,     \* per job: waitRunpod's clock and the last status seen
    outcome,    \* per job: how the background task ended
    sent,       \* per job: the body of the request made to the external service
    fIn,        \* norm, autoMap, candidatesFor, fetchJsonWithRetry: the call and its arguments
    fOut,       \* the value the call returned; fetchJsonWithRetry: the state of its loop
    tmpRes      \* GET /api/tmp/:token: the last response sent

vvars == <<vIn, vOut>>

sidevars == <<fIn, fOut, tmpRes>>

cfgvars == <<variant, mailer, retries>>

jobvars == <<TEMP_FILES, now, pc, req, resp, jobId, log, fetchSt, waitSt, outcome, sent>>

vars == <<vIn, vOut, variant, mailer, retries, TEMP_FILES, now, pc, req, resp, jobId,
          log, fetchSt, waitSt, outcome, sent, fIn, fOut, tmpRes>>

----------------------------------------------------------------------------
(* Characters.  NBSP is U+00A0, TAB is U+0009; CYR_DE and cyr_de are the    *)
(* Cyrillic letter De (U+0414, U+0434); I_DOT is U+0130, whose lower case   *)
(* is "i" followed by the combining mark DOT_ABOVE (U+0307).                *)

NBSP == "nbsp"
TAB == "tab"
CYR_DE == "DE"
cyr_de == "de"
I_DOT == "I."
DOT_ABOVE == "dot"

\* String.prototype.toLowerCase on the characters of the model.
toLowerCase(c) ==
    CASE c = "A" -> "a"
      [] c = "B" -> "b"
      [] c = CYR_DE -> cyr_de
      [] OTHER -> c

\* \p{L}
IsLetter(c) == c \in {"a", "b", "i", "A", "B", CYR_DE, cyr_de, I_DOT}

\* \p{N}
IsDigit(c) == c \in {"1"}

\* \s of a JavaScript regular expression, and what trim() removes.
IsWhite(c) == c \in {" ", NBSP, TAB}

RECURSIVE TrimStart(_)
TrimStart(s) ==
    IF s # <<>> /\ IsWhite(Head(s)) THEN TrimStart(Tail(s)) ELSE s

RECURSIVE TrimEnd(_)
TrimEnd(s) ==
    IF s # <<>> /\ IsWhite(s[Len(s)]) THEN TrimEnd(SubSeq(s, 1, Len(s) - 1)) ELSE s

\* String.prototype.trim
trim(s) == TrimEnd(TrimStart(s))

\* .toLowerCase() of a string: character by character, U+0130 becoming two.
RECURSIVE LowerCased(_)
LowerCased(s) ==
    IF s = <<>> THEN <<>>
    ELSE (IF Head(s) = I_DOT THEN <<"i", DOT_ABOVE>> ELSE <<toLowerCase(Head(s))>>)
         \o LowerCased(Tail(s))

\* .replace(/[\u00A0]/g, " ")
NbspToSpace(s) == [i \in 1..Len(s) |-> IF s[i] = NBSP THEN " " ELSE s[i]]

IsJoiner(c) == c \in {"_", "-"}

\* The character classes of the two run-collapsing replacements.
InRun(class, c) == IF class = "joiner" THEN IsJoiner(c) ELSE IsWhite(c)

\* .replace(/[_\-]+/g, " ") and .replace(/\s+/g, " "): every maximal run of
\* the class becomes one space.
RECURSIVE ReplaceRuns(_, _, _)
ReplaceRuns(s, class, inside) ==
    IF s = <<>> THEN <<>>
    ELSE IF InRun(class, Head(s))
         THEN (IF inside THEN <<>> ELSE <<" ">>) \o ReplaceRuns(Tail(s), class, TRUE)
         ELSE <<Head(s)>> \o ReplaceRuns(Tail(s), class, FALSE)

\* The character class written for ASCII only: [^a-z0-9 ].
KeptAscii(c) == c \in {"a", "b", "i", "1", " "}

\* .replace(/[^\p{L}\p{N} ]/gu, "")
Kept(c) == IsLetter(c) \/ IsDigit(c) \/ c = " "

StripOthers(s) == SelectSeq(s, Kept)

\* norm without its last trim.
normUntrimmed(s) ==
    ReplaceRuns(StripOthers(ReplaceRuns(NbspToSpace(LowerCased(trim(s))), "joiner", FALSE)),
                "white", FALSE)

\* norm(s): trim, lower-case, NBSP to space, runs of _ and - to one space, strip
\* what is not a letter, digit or space, collapse whitespace runs, trim.
norm(s) ==
    LET s1 == trim(s)
        s2 == LowerCased(s1)
        s3 == NbspToSpace(s2)
        s4 == ReplaceRuns(s3, "joiner", FALSE)
        s5 == StripOthers(s4)
        s6 == ReplaceRuns(s5, "white", FALSE)
    IN  trim(s6)

----------------------------------------------------------------------------
(* validateMapping.  A mapping is a record of the four fields; a            *)
(* single-valued field is a string, the empty string standing for every    *)
(* falsy value (undefined, null, ""); bullet_points is [arr, v]: an array  *)
(* of strings (arr = TRUE) or one string (arr = FALSE, v = <<s>>, s empty  *)
(* when the property is falsy).                                            *)

Range(s) == {s[i] : i \in 1..Len(s)}

\* An error string: the message's fixed text and the text interpolated into it
\* (a field name, or the headers the message names).
Missing(field) == [msg |-> "Missing mapping", field |-> field, cols |-> <<>>]
NotFound(col) == [msg |-> "Mapped column not found", field |-> "", cols |-> <<col>>]
BpNotFound(cols) ==
    [msg |-> "Mapped bullet_points column not found", field |-> "", cols |-> cols]

\* Array.isArray(bp) ? bp : bp ? [bp] : []
bpInput(mapping) ==
    IF mapping.bullet_points.arr THEN mapping.bullet_points.v
    ELSE IF mapping.bullet_points.v[1] # <<>> THEN mapping.bullet_points.v
    ELSE <<>>

\* server.js: one field's check against new Set(columns).
CheckFieldRaw(field, value, columns) ==
    IF value = <<>> THEN <<Missing(field)>>
    ELSE IF value \notin Range(columns) THEN <<NotFound(value)>>
    ELSE <<>>

RECURSIVE BpErrorsRaw(_, _)
BpErrorsRaw(bp, columns) ==
    IF bp = <<>> THEN <<>>
    ELSE (IF Head(bp) \notin Range(columns) THEN <<BpNotFound(<<Head(bp)>>)>> ELSE <<>>)
         \o BpErrorsRaw(Tail(bp), columns)

\* validateMapping of src/server.js (the pull variant).
validateMappingPull(mapping, columns) ==
    LET bp == bpInput(mapping)
        errors ==
            CheckFieldRaw("product_images", mapping.product_images, columns)
            \o CheckFieldRaw("title", mapping.title, columns)
            \o CheckFieldRaw("description", mapping.description, columns)
            \o (IF bp = <<>> THEN <<Missing("bullet_points")>>
                ELSE BpErrorsRaw(bp, columns))
    IN  [ok |-> errors = <<>>, errors |-> errors, bullet_points |-> bp]

\* part_001: normToRaw, the Map filled by set(norm(c), c) over the columns in
\* order: a later column with the same normalized form replaces an earlier one.
RECURSIVE normToRaw(_, _)
normToRaw(columns, n) ==
    IF columns = <<>> THEN <<>>
    ELSE IF norm(columns[Len(columns)]) = n THEN columns[Len(columns)]
    ELSE normToRaw(SubSeq(columns, 1, Len(columns) - 1), n)

\* part_001: exists(col); the empty string stands for null.
exists(col, columns) ==
    IF col = <<>> THEN <<>> ELSE normToRaw(columns, norm(col))

CheckFieldNorm(value, columns) ==
    IF exists(value, columns) = <<>> THEN <<NotFound(value)>> ELSE <<>>

NonEmpty(s) == s # <<>>

\* validateMapping of src/unnamed/part_001 (the inline variant).
validateMappingInline(mapping, columns) ==
    LET bpIn == bpInput(mapping)
        bullet_points ==
            SelectSeq([i \in 1..Len(bpIn) |-> exists(bpIn[i], columns)], NonEmpty)
        errors ==
            CheckFieldNorm(mapping.product_images, columns)
            \o CheckFieldNorm(mapping.title, columns)
            \o CheckFieldNorm(mapping.description, columns)
            \o (IF bullet_points = <<>> THEN <<BpNotFound(bpIn)>> ELSE <<>>)
    IN  [ok |-> errors = <<>>, errors |-> errors, bullet_points |-> bullet_points]

validateMapping(server, mapping, columns) ==
    IF server = "pull" THEN validateMappingPull(mapping, columns)
    ELSE validateMappingInline(mapping, columns)

----------------------------------------------------------------------------
(* The inputs of the validateMapping specification.                         *)

MaxCols == 2
MaxBp == 2

SeqsUpTo(S, n) == UNION {[1..k -> S] : k \in 0..n}

\* Headers as extractColumnsFromFirstSheet returns them: trimmed, not empty.
HeaderSet == {<<"A">>, <<"a", "_", "b">>, <<"!">>}

Falsy == <<>>

ValSet ==
    {Falsy, <<"A">>, <<"a">>, <<" ", "A">>, <<"a", " ", "b">>, <<"1">>, <<"-">>}

BpSet ==
    {[arr |-> FALSE, v |-> <<s>>] : s \in {Falsy, <<"a", " ", "b">>, <<"1">>}}
    \cup {[arr |-> TRUE, v |-> b] : b \in SeqsUpTo({<<"A">>, <<"1">>, Falsy}, MaxBp)}

Mappings ==
    [product_images : ValSet,
     title : {Falsy, <<"a">>, <<"1">>},
     description : {<<"A">>, <<"1">>},
     bullet_points : BpSet]

----------------------------------------------------------------------------
(* The inline inference client: fetchJsonWithRetry and callInferenceModal   *)
(* (src/unnamed/part_001).                                                  *)

MaxRetries == 4     \* the largest INFERENCE_RETRIES of the retry specification
JobRetries == 2     \* the largest INFERENCE_RETRIES of the job specification

NoJson == [valid |-> FALSE, ok |-> FALSE, xlsx_base64 |-> FALSE]
NoErr == [name |-> "", message |-> <<>>, httpStatus |-> 0]

\* What one attempt's fetch(url) and r.text() produce: an exception thrown by
\* fetch (throws # NoErr), or a response with a status and a body.  A body
\* is its text, the value JSON.parse gives for it, and the message of the
\* SyntaxError JSON.parse throws when it is not JSON (newer engines quote the
\* text in it, older ones do not).
Thrown(id, name, message) ==
    [id |-> id, throws |-> [name |-> name, message |-> message, httpStatus |-> 0],
     status |-> 0, text |-> <<>>, json |-> NoJson, syntaxError |-> <<>>]

Http(id, status, text, json, syntaxError) ==
    [id |-> id, throws |-> NoErr, status |-> status, text |-> text, json |-> json,
     syntaxError |-> syntaxError]

NetFail == Thrown("net", "TypeError", <<"fetch failed">>)
Aborted == Thrown("abort", "AbortError", <<"this", "operation", "was", "aborted">>)
RespOk ==
    Http("ok", 200, <<"ok", "true", "xlsx_base64">>,
         [valid |-> TRUE, ok |-> TRUE, xlsx_base64 |-> TRUE], <<>>)
RespOkFalse ==
    Http("ok_false", 200, <<"ok", "false">>,
         [valid |-> TRUE, ok |-> FALSE, xlsx_base64 |-> FALSE], <<>>)
RespNoPayload ==
    Http("no_payload", 200, <<"ok", "true">>,
         [valid |-> TRUE, ok |-> TRUE, xlsx_base64 |-> FALSE], <<>>)
RespHtml == Http("html", 200, <<"<html>">>, NoJson, <<"unexpected", "token">>)
RespTextQuoted ==
    Http("text_quoted", 200, <<"upstream", "timeout">>, NoJson,
         <<"unexpected", "token", "upstream", "timeout", "is", "not", "valid", "json">>)
Resp400 == Http("h400", 400, <<"bad", "request">>, NoJson, <<"unexpected", "token">>)
Resp408 == Http("h408", 408, <<"request", "timeout">>, NoJson, <<"unexpected", "token">>)
Resp429 == Http("h429", 429, <<"too", "many", "requests">>, NoJson, <<"unexpected", "token">>)
Resp500 == Http("h500", 500, <<"internal", "error">>, NoJson, <<"unexpected", "token">>)
Resp503 == Http("h503", 503, <<"service", "unavailable">>, NoJson, <<"unexpected", "token">>)

InferenceResponses ==
    {NetFail, Aborted, RespOk, RespOkFalse, RespNoPayload, RespHtml, RespTextQuoted,
     Resp400, Resp408, Resp429, Resp500, Resp503}

\* isRetryableFetchError: the lower-cased message includes one of these.
RetryableWords ==
    {"fetch failed", "socket", "econnreset", "etimedout", "timeout", "network", "undici"}

isRetryableFetchError(err) == Range(err.message) \cap RetryableWords # {}

\* What the try block of one attempt throws for a response; NoErr when it
\* returns the parsed body.
AttemptError(r) ==
    IF r.throws # NoErr THEN r.throws
    ELSE IF ~(r.status \in 200..299)
         THEN [name |-> "Error", message |-> <<"http", ToString(r.status)>> \o r.text,
               httpStatus |-> r.status]
    ELSE IF ~r.json.valid
         THEN [name |-> "SyntaxError", message |-> r.syntaxError, httpStatus |-> 0]
    ELSE NoErr

\* status && (status === 429 || status >= 500)
retryableHttp(e) == e.httpStatus # 0 /\ (e.httpStatus = 429 \/ e.httpStatus >= 500)

\* isRetryableFetchError alone.
retryableNetNoAbort(e) == isRetryableFetchError(e)

\* isRetryableFetchError(e) || e?.name === "AbortError"
retryableNet(e) == isRetryableFetchError(e) \/ e.name = "AbortError"

\* The catch block giving up one attempt late.
GivesUpLate(e, attempt, n) == attempt > n \/ (~retryableHttp(e) /\ ~retryableNet(e))

\* The catch block giving up one attempt early.
GivesUpEarly(e, attempt, n) == attempt >= n - 1 \/ (~retryableHttp(e) /\ ~retryableNet(e))

\* attempt === retries || (!retryableHttp && !retryableNet): the catch block
\* rethrows instead of sleeping.
GivesUp(e, attempt, n) == attempt = n \/ (~retryableHttp(e) /\ ~retryableNet(e))

\* callInferenceModal taking every parsed body for a result.
InferenceUnchecked(data) == ""

\* callInferenceModal's checks of the parsed body: the error it throws.
InferenceCheck(data) ==
    IF ~data.ok THEN "Inference ok=false"
    ELSE IF ~data.xlsx_base64 THEN "Inference missing xlsx_base64"
    ELSE ""

NoResponse == Http("none", 0, <<>>, NoJson, <<>>)

\* fetchJsonWithRetry's state: attempt and lastErr, with the number of backoff
\* sleeps made, the last response, whether every response before the last
\* was a transient failure, how the call ended ("returned", "threw") and
\* the value it returned.
NoFetch ==
    [attempt |-> 0, sleeps |-> 0, last |-> NoResponse, before |-> TRUE,
     out |-> "none", lastErr |-> NoErr, data |-> NoJson]

\* The failures the retry policy names: a network-level failure (fetch throws,
\* the attempt's timer aborts it), HTTP 429, HTTP 5xx.
Transient(r) == r.throws # NoErr \/ r.status = 429 \/ r.status >= 500

----------------------------------------------------------------------------
(* The pull client of src/server.js: runpodRun, runpodStatus, waitRunpod,   *)
(* getResultBufferFromRunpodOutput.  Time is counted in poll intervals.     *)

intervalMs == 1     \* waitRunpod's intervalMs: time is counted in poll intervals
timeoutMs == 2      \* waitRunpod's timeoutMs, in poll intervals
MaxQueryTime == 1   \* the longest a status query takes to return

\* What a call of runpodRun, or the download of result_file_url, ends with:
\* the response is 2xx, fetch throws, or the response is not ok.
CallResults == {"ok", "net", "h503", "h400"}

TransientCall(o) == o \in {"net", "h503"}

\* What a call of runpodStatus ends with: it throws (fails # ""), or returns
\* the parsed body {status, output, error}.  output is what getResultBuffer-
\* FromRunpodOutput finds in it: "url", "base64", "none" (falsy), "other";
\* error is the detail the service reports, "" when the body has none.
StatusThrows(o) == [fails |-> o, status |-> "", output |-> "none", error |-> ""]
StatusBody(status, output) ==
    [fails |-> "", status |-> status, output |-> output, error |-> ""]
StatusError(status, error) ==
    [fails |-> "", status |-> status, output |-> "none", error |-> error]

StatusResults ==
    {StatusThrows(o) : o \in {"net", "h503", "h400"}}
    \cup {StatusBody("COMPLETED", out) : out \in {"url", "base64", "none", "other"}}
    \cup {StatusBody(st, "none") : st \in {"IN_PROGRESS", "?"}}
    \cup {StatusError(st, e) :
            st \in {"FAILED", "TIMED_OUT", "CANCELLED"}, e \in {"", "out of memory"}}

\* The failure statuses without CANCELLED.
isFailureStatusNoCancel(status) == status \in {"FAILED", "TIMED_OUT"}

\* st.status === "FAILED" || st.status === "TIMED_OUT" || st.status === "CANCELLED"
isFailureStatus(status) == status \in {"FAILED", "TIMED_OUT", "CANCELLED"}

\* The budget compared one poll interval late.
budgetExceededLate(elapsed) == elapsed > timeoutMs + intervalMs

\* Date.now() - started > timeoutMs
budgetExceeded(elapsed) == elapsed > timeoutMs

\* The budget tested before the status is looked at.
waitStepBudgetFirst(st, elapsed) ==
    IF budgetExceeded(elapsed) THEN "timeout"
    ELSE IF st.status = "COMPLETED" THEN "returned"
    ELSE IF isFailureStatus(st.status) THEN "threw"
    ELSE "sleep"

\* One turn of waitRunpod's loop after runpodStatus returned st: it returns
\* st, throws the job's failure, throws the wait timeout, or sleeps.
waitStep(st, elapsed) ==
    IF st.status = "COMPLETED" THEN "returned"
    ELSE IF isFailureStatus(st.status) THEN "threw"
    ELSE IF budgetExceeded(elapsed) THEN "timeout"
    ELSE "sleep"

\* waitRunpod's state: Date.now() - started, the last result of runpodStatus,
\* and how the call ended ("returned", "threw", "timeout"); then how the
\* download of result_file_url ended.
NoWait == [elapsed |-> 0, last |-> StatusThrows(""), out |-> "none", download |-> ""]

\* Every output without a result URL taken for an inline payload.
ResultSourceLenient(output) == IF output = "url" THEN "download" ELSE "buffer"

\* getResultBufferFromRunpodOutput before its first await: "download" when it
\* fetches result_file_url, "buffer" when it decodes result_file_base64, or
\* the error it throws.
ResultSource(output) ==
    CASE output = "none" -> "Runpod COMPLETED but output is empty"
      [] output = "url" -> "download"
      [] output = "base64" -> "buffer"
      [] OTHER -> "Unknown output format"

----------------------------------------------------------------------------
(* The mailers: sendResultEmail of src/mailer.js (nodemailer) and of        *)
(* src/unnamed/part_000 (Gmail API).                                        *)

\* How a call of sendResultEmail can end.  part_000's buildRawEmail encodes
\* the attachment with Buffer.from(att.content), which throws when the caller
\* passed no contentBuffer.
MailResults(which, hasContent) ==
    IF which = "gmail" /\ ~hasContent THEN {"fail"} ELSE {"ok", "fail"}

----------------------------------------------------------------------------
(* POST /api/jobs and its background task.                                  *)

Jobs == {"j1", "j2"}
Tokens == {"t1", "t2"}

TEMP_TTL_MS == 3

\* configs/models.json
modelsCfg == {"braket_type", "color"}

NoEntry == [buffer |-> "", filename |-> "", mime |-> "", expiresAt |-> 0]

\* Every file stored under one key.
putTempFileShared(files, token, file, t) ==
    [files EXCEPT !["t1"] =
        [buffer |-> file.buffer, filename |-> file.originalname, mime |-> file.mimetype,
         expiresAt |-> t + TEMP_TTL_MS]]

\* putTempFile's TEMP_FILES.set(token, ...)
putTempFile(files, token, file, t) ==
    [files EXCEPT ![token] =
        [buffer |-> file.buffer,
         filename |-> IF file.originalname = "" THEN "input.xlsx" ELSE file.originalname,
         mime |-> IF file.mimetype = "" THEN "application/octet-stream" ELSE file.mimetype,
         expiresAt |-> t + TEMP_TTL_MS]]

Cols0 == << <<"A">>, <<"a", "_", "b">> >>

MapOk ==
    [product_images |-> <<"A">>, title |-> <<"A">>, description |-> <<"a", "_", "b">>,
     bullet_points |-> [arr |-> FALSE, v |-> << <<"a", "_", "b">> >>]]

MapBad == [MapOk EXCEPT !.title = <<"1">>, !.description = Falsy]

File(j) == [buffer |-> j, originalname |-> "in.xlsx", mimetype |-> "", parses |-> TRUE]
NoFile == [buffer |-> "", originalname |-> "", mimetype |-> "", parses |-> FALSE]

ReqOk(j) ==
    [file |-> File(j), email |-> TRUE, mapping |-> MapOk, columns |-> Cols0,
     models |-> <<"color">>]

\* The requests a caller sends for job j: a valid one, and one for each check
\* of the handler.
Requests(j) ==
    {ReqOk(j),
     [ReqOk(j) EXCEPT !.file = NoFile],
     [ReqOk(j) EXCEPT !.file.parses = FALSE],
     [ReqOk(j) EXCEPT !.email = FALSE],
     [ReqOk(j) EXCEPT !.mapping = MapBad],
     [ReqOk(j) EXCEPT !.models = <<"color", "gpt">>],
     [ReqOk(j) EXCEPT !.models = <<>>]}

NoReq == [ReqOk("") EXCEPT !.file = NoFile, !.email = FALSE]

\* part_001: if (!Array.isArray(models) || !models.length) models = ["braket_type"]
modelsOf(server, r) ==
    IF server = "inline" /\ r.models = <<>> THEN <<"braket_type">> ELSE r.models

\* The error of the response for a model id that configs/models.json lacks.
UnknownModel(server) ==
    IF server = "pull" THEN "Unknown model"
    ELSE "Hardcoded model is not in configs/models.json"

\* The checks of the handler, in the code's order: the error of the 400
\* response, or "" when the request passes them all.
Rejection(server, r) ==
    IF r.file = NoFile THEN "No file"
    ELSE IF ~r.email THEN "Invalid email"
    ELSE IF ~r.file.parses THEN "Bad request"
    ELSE IF ~validateMapping(server, r.mapping, r.columns).ok THEN "Invalid mapping"
    ELSE IF Range(modelsOf(server, r)) \ modelsCfg # {} THEN UnknownModel(server)
    ELSE IF modelsOf(server, r) = <<>> THEN "No models selected"
    ELSE ""

NoResp == [code |-> 0, error |-> "", status |-> ""]
Queued == [code |-> 201, error |-> "", status |-> "queued"]
Rejected(error) == [code |-> 400, error |-> error, status |-> ""]

NoOutcome == [state |-> "none", call |-> "", why |-> "", attempts |-> 0, detail |-> ""]
Failed(call, why, attempts) ==
    [state |-> "failed", call |-> call, why |-> why, attempts |-> attempts, detail |-> ""]
Completed == [state |-> "completed", call |-> "", why |-> "", attempts |-> 0, detail |-> ""]
MailFailed ==
    [state |-> "mail_failed", call |-> "mail", why |-> "fail", attempts |-> 1, detail |-> ""]
Crashed ==
    [state |-> "crashed", call |-> "mail", why |-> "fail", attempts |-> 1, detail |-> ""]

\* JSON.stringify(st.error || st)
errorDetail(st) == IF st.error # "" THEN st.error ELSE ToString(st)

NoSent == [kind |-> "none", token |-> ""]

\* server.js: mapping.bullet_points = v.bullet_points, and the body of
\* runpodRun's request: { input: { file_url, mapping, models } }.
runInput(token, r) ==
    [kind |-> "run", token |-> token,
     mapping |-> [r.mapping EXCEPT
                    !.bullet_points = validateMapping("pull", r.mapping, r.columns).bullet_points],
     models |-> r.models]

\* part_001: the payload of callInferenceModal's request.
inferencePayload(r) ==
    [kind |-> "inference", token |-> "", xlsx_base64 |-> r.file.buffer,
     models_list |-> modelsOf("inline", r),
     filename |-> IF r.file.originalname = "" THEN "input.xlsx" ELSE r.file.originalname]

\* The file stored before the request's checks.
StoreBeforeChecks(files, token, r, t) == putTempFile(files, token, r.file, t)

\* The handler without its putTempFile call.
StoreSkipped(files, token, r, t) == files

\* server.js, when the request is accepted: the file is stored under a new
\* token before runpodRun is called.
StoreOnRequest(files, token, r, t) ==
    IF Rejection("pull", r) = "" THEN putTempFile(files, token, r.file, t) ELSE files

\* The handler of POST /api/jobs up to its first await (server.js: the call of
\* runpodRun) or to its end (part_001: the response, setImmediate).
Request(j) ==
    /\ pc[j] = "idle"
    /\ \E r \in Requests(j),
          t \in {u \in Tokens : TEMP_FILES[u] = NoEntry /\ \A k \in Jobs : sent[k].token # u} :
        LET why == Rejection(variant, r)
        IN  /\ req' = [req EXCEPT ![j] = r]
            /\ sent' = IF variant = "pull" /\ why = ""
                       THEN [sent EXCEPT ![j] = runInput(t, r)]
                       ELSE sent
            /\ TEMP_FILES' = IF variant = "pull"
                             THEN StoreOnRequest(TEMP_FILES, t, r, now)
                             ELSE TEMP_FILES
            /\ jobId' = [jobId EXCEPT ![j] = (why = "")]
            /\ IF why # ""
               THEN /\ resp' = [resp EXCEPT ![j] = Rejected(why)]
                    /\ pc' = [pc EXCEPT ![j] = "done"]
                    /\ UNCHANGED log
               ELSE IF variant = "pull"
               THEN /\ log' = [log EXCEPT ![j] = <<"put", "submit">>]
                    /\ pc' = [pc EXCEPT ![j] = "run"]
                    /\ UNCHANGED resp
               ELSE /\ resp' = [resp EXCEPT ![j] = Queued]
                    /\ log' = [log EXCEPT ![j] = <<"ack">>]
                    /\ pc' = [pc EXCEPT ![j] = "queued"]
    /\ UNCHANGED <<vvars, sidevars, cfgvars, now, fetchSt, waitSt, outcome>>

\* runpodRun's failure swallowed: the job is queued whatever the call did.
RunReturnUnchecked(j) ==
    /\ pc[j] = "run"
    /\ \E o \in CallResults :
        /\ resp' = [resp EXCEPT ![j] = Queued]
        /\ log' = [log EXCEPT ![j] = log[j] \o
                        (IF o = "ok" THEN <<"submit_ok", "ack">> ELSE <<"ack">>)]
        /\ pc' = [pc EXCEPT ![j] = "queued"]
        /\ UNCHANGED outcome
    /\ UNCHANGED <<vvars, sidevars, cfgvars, TEMP_FILES, now, req, sent, jobId, fetchSt, waitSt>>

\* runpodRun called again after a failure.
RunReturnResubmits(j) ==
    /\ pc[j] = "run"
    /\ \E o \in CallResults :
        IF o = "ok"
        THEN /\ resp' = [resp EXCEPT ![j] = Queued]
             /\ log' = [log EXCEPT ![j] = log[j] \o <<"submit_ok", "ack">>]
             /\ pc' = [pc EXCEPT ![j] = "queued"]
        ELSE /\ log' = [log EXCEPT ![j] = Append(log[j], "submit")]
             /\ UNCHANGED <<resp, pc>>
    /\ UNCHANGED <<vvars, sidevars, cfgvars, TEMP_FILES, now, req, sent, jobId, fetchSt, waitSt,
                   outcome>>

\* server.js: await runpodRun(...) returns or throws; the 201 response and
\* setImmediate, or the catch block's 400 response.
RunReturn(j) ==
    /\ pc[j] = "run"
    /\ \E o \in CallResults :
        IF o = "ok"
        THEN /\ resp' = [resp EXCEPT ![j] = Queued]
             /\ log' = [log EXCEPT ![j] = log[j] \o <<"submit_ok", "ack">>]
             /\ pc' = [pc EXCEPT ![j] = "queued"]
             /\ UNCHANGED outcome
        ELSE /\ resp' = [resp EXCEPT ![j] = Rejected("Bad request")]
             /\ outcome' = [outcome EXCEPT ![j] = Failed("run", o, 1)]
             /\ pc' = [pc EXCEPT ![j] = "done"]
             /\ UNCHANGED log
    /\ UNCHANGED <<vvars, sidevars, cfgvars, TEMP_FILES, now, req, sent, jobId, fetchSt, waitSt>>

\* The setImmediate callback up to its first await: waitRunpod's first
\* runpodStatus (server.js), the "being processed" mail (part_001).
BgStart(j) ==
    /\ pc[j] = "queued"
    /\ IF variant = "pull"
       THEN /\ waitSt' = [waitSt EXCEPT ![j] = [NoWait EXCEPT !.out = "waiting"]]
            /\ log' = [log EXCEPT ![j] = Append(log[j], "poll")]
            /\ pc' = [pc EXCEPT ![j] = "status"]
       ELSE /\ log' = [log EXCEPT ![j] = Append(log[j], "mail_started")]
            /\ pc' = [pc EXCEPT ![j] = "started_mail"]
            /\ UNCHANGED waitSt
    /\ UNCHANGED <<vvars, sidevars, cfgvars, TEMP_FILES, now, req, sent, resp, jobId, fetchSt, outcome>>

\* part_001: await sendResultEmail (the "being processed" mail) returns or
\* throws.  It is outside every try: a throw ends the callback; otherwise
\* callInferenceModal makes fetchJsonWithRetry's first attempt.
StartedMailReturn(j) ==
    /\ pc[j] = "started_mail"
    /\ \E o \in MailResults(mailer, FALSE) :
        IF o = "ok"
        THEN /\ fetchSt' = [fetchSt EXCEPT ![j] = [NoFetch EXCEPT !.attempt = 1]]
             /\ sent' = [sent EXCEPT ![j] = inferencePayload(req[j])]
             /\ log' = [log EXCEPT ![j] = Append(log[j], "submit")]
             /\ pc' = [pc EXCEPT ![j] = "fetching"]
             /\ UNCHANGED outcome
        ELSE /\ outcome' = [outcome EXCEPT ![j] = Crashed]
             /\ pc' = [pc EXCEPT ![j] = "done"]
             /\ UNCHANGED <<fetchSt, log, sent>>
    /\ UNCHANGED <<vvars, sidevars, cfgvars, TEMP_FILES, now, req, resp, jobId, waitSt>>

\* The attempt's state after its response r.
Attempted(f, r) ==
    [f EXCEPT !.last = r, !.before = (f.attempt = 1 \/ (f.before /\ Transient(f.last))),
              !.lastErr = AttemptError(r)]

\* part_001: one attempt of fetchJsonWithRetry ends: the body is returned to
\* callInferenceModal and the background task goes on to the result mail, or
\* the catch block rethrows (the task logs "Inference failed"), or it sleeps.
FetchReturn(j) ==
    /\ pc[j] = "fetching"
    /\ \E r \in InferenceResponses :
        LET f == Attempted(fetchSt[j], r)
            e == f.lastErr
        IN  IF e = NoErr
            THEN /\ fetchSt' = [fetchSt EXCEPT ![j] =
                                [f EXCEPT !.out = "returned", !.data = r.json]]
                 /\ IF InferenceCheck(r.json) = ""
                    THEN /\ log' = [log EXCEPT ![j] = log[j] \o
                                <<"submit_ok", "fetch_result", "result", "mail_success">>]
                         /\ pc' = [pc EXCEPT ![j] = "success_mail"]
                         /\ UNCHANGED outcome
                    ELSE /\ outcome' = [outcome EXCEPT ![j] =
                                Failed("inference", InferenceCheck(r.json), f.attempt)]
                         /\ pc' = [pc EXCEPT ![j] = "done"]
                         /\ UNCHANGED log
            ELSE IF GivesUp(e, f.attempt, retries)
            THEN /\ fetchSt' = [fetchSt EXCEPT ![j] = [f EXCEPT !.out = "threw"]]
                 /\ outcome' = [outcome EXCEPT ![j] = Failed("inference", r.id, f.attempt)]
                 /\ pc' = [pc EXCEPT ![j] = "done"]
                 /\ UNCHANGED log
            ELSE /\ fetchSt' = [fetchSt EXCEPT ![j] = [f EXCEPT !.sleeps = @ + 1]]
                 /\ pc' = [pc EXCEPT ![j] = "backoff"]
                 /\ UNCHANGED <<log, outcome>>
    /\ UNCHANGED <<vvars, sidevars, cfgvars, TEMP_FILES, now, req, sent, resp, jobId, waitSt>>

\* part_001: await sleep(wait) ends; the loop's next attempt.
BackoffDone(j) ==
    /\ pc[j] = "backoff"
    /\ fetchSt' = [fetchSt EXCEPT ![j].attempt = @ + 1]
    /\ log' = [log EXCEPT ![j] = Append(log[j], "submit")]
    /\ pc' = [pc EXCEPT ![j] = "fetching"]
    /\ UNCHANGED <<vvars, sidevars, cfgvars, TEMP_FILES, now, req, sent, resp, jobId, waitSt, outcome>>

\* server.js: await runpodStatus returns or throws, d after it was called;
\* waitRunpod returns, throws or sleeps; on COMPLETED the task goes on to
\* getResultBufferFromRunpodOutput and, with an inline payload, to the mail.
StatusReturn(j) ==
    /\ pc[j] = "status"
    /\ \E o \in StatusResults, d \in 0..MaxQueryTime :
        LET w == [waitSt[j] EXCEPT !.elapsed = @ + d, !.last = o]
            fail(call, why) ==
                /\ outcome' = [outcome EXCEPT ![j] = Failed(call, why, 1)]
                /\ pc' = [pc EXCEPT ![j] = "done"]
        IN  IF o.fails # ""
            THEN /\ waitSt' = [waitSt EXCEPT ![j] = [w EXCEPT !.out = "threw"]]
                 /\ fail("status", o.fails)
                 /\ UNCHANGED log
            ELSE IF waitStep(o, w.elapsed) = "returned"
            THEN /\ waitSt' = [waitSt EXCEPT ![j] = [w EXCEPT !.out = "returned"]]
                 /\ CASE ResultSource(o.output) = "download" ->
                           /\ log' = [log EXCEPT ![j] = log[j] \o
                                        <<"status_completed", "fetch_result">>]
                           /\ pc' = [pc EXCEPT ![j] = "download"]
                           /\ UNCHANGED outcome
                      [] ResultSource(o.output) = "buffer" ->
                           /\ log' = [log EXCEPT ![j] = log[j] \o
                                <<"status_completed", "fetch_result", "result",
                                  "mail_success">>]
                           /\ pc' = [pc EXCEPT ![j] = "success_mail"]
                           /\ UNCHANGED outcome
                      [] OTHER ->
                           /\ log' = [log EXCEPT ![j] = Append(log[j], "status_completed")]
                           /\ fail("result", ResultSource(o.output))
            ELSE IF waitStep(o, w.elapsed) = "threw"
            THEN /\ waitSt' = [waitSt EXCEPT ![j] = [w EXCEPT !.out = "threw"]]
                 /\ outcome' = [outcome EXCEPT ![j] =
                        [Failed("wait", o.status, 1) EXCEPT !.detail = errorDetail(o)]]
                 /\ pc' = [pc EXCEPT ![j] = "done"]
                 /\ UNCHANGED log
            ELSE IF waitStep(o, w.elapsed) = "timeout"
            THEN /\ waitSt' = [waitSt EXCEPT ![j] = [w EXCEPT !.out = "timeout"]]
                 /\ fail("wait", "Runpod wait timeout")
                 /\ UNCHANGED log
            ELSE /\ waitSt' = [waitSt EXCEPT ![j] = w]
                 /\ pc' = [pc EXCEPT ![j] = "poll_sleep"]
                 /\ UNCHANGED <<log, outcome>>
    /\ UNCHANGED <<vvars, sidevars, cfgvars, TEMP_FILES, now, req, sent, resp, jobId, fetchSt>>

\* server.js: await sleep(intervalMs) ends; the loop's next runpodStatus.
PollWake(j) ==
    /\ pc[j] = "poll_sleep"
    /\ waitSt' = [waitSt EXCEPT ![j].elapsed = @ + intervalMs]
    /\ log' = [log EXCEPT ![j] = Append(log[j], "poll")]
    /\ pc' = [pc EXCEPT ![j] = "status"]
    /\ UNCHANGED <<vvars, sidevars, cfgvars, TEMP_FILES, now, req, sent, resp, jobId, fetchSt, outcome>>

\* server.js: await fetch(output.result_file_url) returns or throws.
DownloadReturn(j) ==
    /\ pc[j] = "download"
    /\ \E o \in CallResults :
        /\ waitSt' = [waitSt EXCEPT ![j].download = o]
        /\ IF o = "ok"
           THEN /\ log' = [log EXCEPT ![j] = log[j] \o <<"result", "mail_success">>]
                /\ pc' = [pc EXCEPT ![j] = "success_mail"]
                /\ UNCHANGED outcome
           ELSE /\ outcome' = [outcome EXCEPT ![j] = Failed("download", o, 1)]
                /\ pc' = [pc EXCEPT ![j] = "done"]
                /\ UNCHANGED log
    /\ UNCHANGED <<vvars, sidevars, cfgvars, TEMP_FILES, now, req, sent, resp, jobId, fetchSt>>

\* await sendResultEmail (the mail with the result) returns or throws; both
\* variants catch the throw and log it.
SuccessMailReturn(j) ==
    /\ pc[j] = "success_mail"
    /\ \E o \in MailResults(mailer, TRUE) :
        outcome' = [outcome EXCEPT ![j] = IF o = "ok" THEN Completed ELSE MailFailed]
    /\ pc' = [pc EXCEPT ![j] = "done"]
    /\ UNCHANGED <<vvars, sidevars, cfgvars, TEMP_FILES, now, req, sent, resp, jobId, log, fetchSt, waitSt>>

----------------------------------------------------------------------------
(* The job specification: two callers, one deployment.                      *)

NoCall == [mapping |-> MapOk, columns |-> <<>>]
NotCalled == [called |-> FALSE, ok |-> FALSE, errors |-> <<>>, bullet_points |-> <<>>]

NoValidate == vIn = NoCall /\ vOut = NotCalled

\* No pure function called, no token served.
NoFn == [fn |-> "", headers |-> <<>>, key |-> "", limit |-> 0]
NoRet == [called |-> FALSE]
NoTmp == [token |-> "", code |-> 0, body |-> "", mime |-> "", filename |-> "", at |-> 0]

SideIdle == fIn = NoFn /\ fOut = NoRet /\ tmpRes = NoTmp

JobsIdle ==
    /\ TEMP_FILES = [t \in Tokens |-> NoEntry]
    /\ now = 0
    /\ pc = [j \in Jobs |-> "idle"]
    /\ req = [j \in Jobs |-> NoReq]
    /\ resp = [j \in Jobs |-> NoResp]
    /\ jobId = [j \in Jobs |-> FALSE]
    /\ log = [j \in Jobs |-> <<>>]
    /\ fetchSt = [j \in Jobs |-> NoFetch]
    /\ waitSt = [j \in Jobs |-> NoWait]
    /\ outcome = [j \in Jobs |-> NoOutcome]
    /\ sent = [j \in Jobs |-> NoSent]

Init ==
    /\ NoValidate
    /\ SideIdle
    /\ variant \in {"pull", "inline"}
    \* server.js passes every mail a contentBuffer, and the two mailers differ
    \* only without one; it never reads INFERENCE_RETRIES.
    /\ mailer \in (IF variant = "inline" THEN {"smtp", "gmail"} ELSE {"smtp"})
    /\ retries \in (IF variant = "inline" THEN 1..JobRetries ELSE {JobRetries})
    /\ JobsIdle

Next ==
    \E j \in Jobs :
        \/ Request(j)
        \/ RunReturn(j)
        \/ BgStart(j)
        \/ StartedMailReturn(j)
        \/ FetchReturn(j)
        \/ BackoffDone(j)
        \/ StatusReturn(j)
        \/ PollWake(j)
        \/ DownloadReturn(j)
        \/ SuccessMailReturn(j)

Spec == Init /\ [][Next]_vars

\* The job specification with the process running on and every awaited call
\* of a background task returning or throwing in the end.
FairSpec ==
    /\ Spec
    /\ \A j \in Jobs :
        /\ WF_vars(RunReturn(j))
        /\ WF_vars(BgStart(j))
        /\ WF_vars(StartedMailReturn(j))
        /\ WF_vars(FetchReturn(j))
        /\ WF_vars(BackoffDone(j))
        /\ WF_vars(StatusReturn(j))
        /\ WF_vars(PollWake(j))
        /\ WF_vars(DownloadReturn(j))
        /\ WF_vars(SuccessMailReturn(j))

----------------------------------------------------------------------------
(* The retry specification: one call of fetchJsonWithRetry, made by         *)
(* callInferenceModal for job j1, for every INFERENCE_RETRIES up to         *)
(* MaxRetries.                                                              *)

RetryInit ==
    /\ NoValidate
    /\ SideIdle
    /\ variant = "inline"
    /\ mailer = "smtp"
    /\ retries \in 1..MaxRetries
    /\ TEMP_FILES = [t \in Tokens |-> NoEntry]
    /\ now = 0
    /\ pc = [j \in Jobs |-> IF j = "j1" THEN "fetching" ELSE "idle"]
    /\ req = [j \in Jobs |-> IF j = "j1" THEN ReqOk(j) ELSE NoReq]
    /\ resp = [j \in Jobs |-> IF j = "j1" THEN Queued ELSE NoResp]
    /\ jobId = [j \in Jobs |-> j = "j1"]
    /\ log = [j \in Jobs |-> IF j = "j1" THEN <<"ack", "mail_started", "submit">> ELSE <<>>]
    /\ fetchSt = [j \in Jobs |-> IF j = "j1" THEN [NoFetch EXCEPT !.attempt = 1] ELSE NoFetch]
    /\ waitSt = [j \in Jobs |-> NoWait]
    /\ outcome = [j \in Jobs |-> NoOutcome]
    /\ sent = [j \in Jobs |-> IF j = "j1" THEN inferencePayload(ReqOk(j)) ELSE NoSent]

RetryNext == FetchReturn("j1") \/ BackoffDone("j1")

RetrySpec == RetryInit /\ [][RetryNext]_vars

----------------------------------------------------------------------------
(* The wait specification: the background tasks of two accepted jobs of     *)
(* server.js, from waitRunpod's first runpodStatus on.  Every status query  *)
(* returns and every timer fires.                                           *)

WaitInit ==
    /\ NoValidate
    /\ SideIdle
    /\ variant = "pull"
    /\ mailer = "smtp"
    /\ retries = JobRetries
    /\ TEMP_FILES = [t \in Tokens |->
            putTempFile([u \in Tokens |-> NoEntry], t,
                        File(IF t = "t1" THEN "j1" ELSE "j2"), 0)[t]]
    /\ now = 0
    /\ pc = [j \in Jobs |-> "status"]
    /\ req = [j \in Jobs |-> ReqOk(j)]
    /\ resp = [j \in Jobs |-> Queued]
    /\ jobId = [j \in Jobs |-> TRUE]
    /\ log = [j \in Jobs |-> <<"put", "submit", "submit_ok", "ack", "poll">>]
    /\ fetchSt = [j \in Jobs |-> NoFetch]
    /\ waitSt = [j \in Jobs |-> [NoWait EXCEPT !.out = "waiting"]]
    /\ outcome = [j \in Jobs |-> NoOutcome]
    /\ sent = [j \in Jobs |-> runInput(IF j = "j1" THEN "t1" ELSE "t2", ReqOk(j))]

WaitNext == \E j \in Jobs : StatusReturn(j) \/ PollWake(j)

WaitSpec ==
    /\ WaitInit
    /\ [][WaitNext]_vars
    /\ \A j \in Jobs : WF_vars(StatusReturn(j)) /\ WF_vars(PollWake(j))

----------------------------------------------------------------------------
(* The validateMapping specification: one call, of either variant.          *)

ValidateInit ==
    /\ vIn \in [mapping : Mappings, columns : SeqsUpTo(HeaderSet, MaxCols)]
    /\ vOut = NotCalled
    /\ SideIdle
    /\ variant \in {"pull", "inline"}
    /\ mailer = "smtp"
    /\ retries = 1
    /\ JobsIdle

\* const v = validateMapping(mapping, columns)
Validate ==
    /\ ~vOut.called
    /\ LET v == validateMapping(variant, vIn.mapping, vIn.columns)
       IN  vOut' = [called |-> TRUE, ok |-> v.ok, errors |-> v.errors,
                    bullet_points |-> v.bullet_points]
    /\ UNCHANGED <<vIn, sidevars, cfgvars, jobvars>>

ValidateNext == Validate

ValidateSpec == ValidateInit /\ [][ValidateNext]_vars

----------------------------------------------------------------------------
(* The store specification: server.js's TEMP_FILES under the handler's      *)
(* putTempFile, the cleanup timer and GET /api/tmp/:token, as time passes.  *)

MaxNow == 4         \* the clock stops here

\* The expiry test made one instant late.
expiredLate(item, t) == item.expiresAt < t

\* item.expiresAt <= Date.now(), v.expiresAt <= now
expired(item, t) == item.expiresAt <= t

\* Date.now() advances.
Tick ==
    /\ now < MaxNow
    /\ now' = now + 1
    /\ UNCHANGED <<vvars, sidevars, cfgvars, TEMP_FILES, pc, req, sent, resp, jobId, log,
                   fetchSt, waitSt, outcome>>

\* A cleanup that empties the store.
SweepAll ==
    /\ variant = "pull"
    /\ TEMP_FILES' = [t \in Tokens |-> NoEntry]
    /\ UNCHANGED <<vvars, sidevars, cfgvars, now, pc, req, sent, resp, jobId, log,
                   fetchSt, waitSt, outcome>>

\* The setInterval callback: every entry with expiresAt <= now is deleted.
Sweep ==
    /\ variant = "pull"
    /\ TEMP_FILES' = [t \in Tokens |->
                        IF TEMP_FILES[t] # NoEntry /\ expired(TEMP_FILES[t], now)
                        THEN NoEntry ELSE TEMP_FILES[t]]
    /\ UNCHANGED <<vvars, sidevars, cfgvars, now, pc, req, sent, resp, jobId, log,
                   fetchSt, waitSt, outcome>>

\* app.get("/api/tmp/:token"): 404, or the entry's buffer with its headers.
ServeTmp(token) ==
    /\ variant = "pull"
    /\ LET item == TEMP_FILES[token]
       IN  tmpRes' =
             IF item = NoEntry \/ expired(item, now)
             THEN [NoTmp EXCEPT !.token = token, !.code = 404, !.at = now]
             ELSE [token |-> token, code |-> 200, body |-> item.buffer,
                   mime |-> item.mime, filename |-> item.filename, at |-> now]
    /\ UNCHANGED <<vvars, fIn, fOut, cfgvars, jobvars>>

StoreInit ==
    /\ NoValidate
    /\ SideIdle
    /\ variant = "pull"
    /\ mailer = "smtp"
    /\ retries = JobRetries
    /\ JobsIdle

StoreNext ==
    \/ \E j \in Jobs : Request(j) \/ RunReturn(j)
    \/ Tick
    \/ Sweep
    \/ \E t \in Tokens : ServeTmp(t)

StoreSpec == StoreInit /\ [][StoreNext]_vars

----------------------------------------------------------------------------
(* autoMap and candidatesFor.  reqCfg.aliases (configs/required.json) maps  *)
(* a field to its list of aliases; it is part of the call's input.          *)

Keys == <<"product_images", "title", "description", "bullet_points">>

\* null
NULL == <<"null">>

\* String.prototype.includes
Contains(s, a) == \E i \in 1..(Len(s) - Len(a) + 1) : SubSeq(s, i, i + Len(a) - 1) = a

\* headers.map((h) => ({ raw: String(h).trim(), n: norm(h) })).filter((h) => h.raw)
headersInfo(headers) ==
    SelectSeq([i \in 1..Len(headers) |-> [raw |-> trim(headers[i]), n |-> norm(headers[i])]],
              LAMBDA h : h.raw # <<>>)

\* (reqCfg.aliases?.[key] || []).map(norm)
normAliases(cfg, key) == [i \in 1..Len(cfg[key]) |-> norm(cfg[key][i])]

\* headersInfo.find(pred): the first element's index, 0 when there is none.
FirstIndex(hits) ==
    IF hits = {} THEN 0 ELSE CHOOSE i \in hits : \A k \in hits : i <= k

\* h.n equals an alias; h.n includes an alias.
ExactHits(info, aliases) == {i \in 1..Len(info) : info[i].n \in Range(aliases)}
PartialHits(info, aliases) ==
    {i \in 1..Len(info) : \E a \in Range(aliases) : Contains(info[i].n, a)}

\* findOne taking the first header that equals or contains an alias.
findOneSinglePass(info, aliases) ==
    LET i == FirstIndex(PartialHits(info, aliases))
    IN  IF i # 0 THEN info[i].raw ELSE NULL

\* autoMap.findOne
findOne(info, aliases) ==
    LET exact == FirstIndex(ExactHits(info, aliases))
        partial == FirstIndex(PartialHits(info, aliases))
    IN  IF exact # 0 THEN info[exact].raw
        ELSE IF partial # 0 THEN info[partial].raw
        ELSE NULL

\* Array.from(new Set(xs)): the first occurrence of every value, in order.
RECURSIVE Dedup(_)
Dedup(xs) ==
    IF xs = <<>> THEN <<>>
    ELSE LET front == Dedup(SubSeq(xs, 1, Len(xs) - 1))
             x == xs[Len(xs)]
         IN  IF x \in Range(front) THEN front ELSE Append(front, x)

\* findMany keeping only the headers that equal an alias.
findManyExact(info, aliases) ==
    LET hits == SelectSeq(info, LAMBDA h : h.n \in Range(aliases))
    IN  Dedup([i \in 1..Len(hits) |-> hits[i].raw])

\* autoMap.findMany
findMany(info, aliases) ==
    LET hits == SelectSeq(info, LAMBDA h : \E a \in Range(aliases) : h.n = a \/ Contains(h.n, a))
    IN  Dedup([i \in 1..Len(hits) |-> hits[i].raw])

\* missing with bullet_points tested like the other fields: [] is truthy.
missingTruthy(mapping) ==
    SelectSeq(Keys, LAMBDA k : mapping[k] = NULL)

\* autoMap: const missing = []; if (!mapping.product_images) ...
missingOf(mapping) ==
    SelectSeq(Keys, LAMBDA k : IF k = "bullet_points" THEN mapping[k] = <<>>
                               ELSE mapping[k] = NULL)

autoMap(headers, cfg) ==
    LET info == headersInfo(headers)
        mapping == [k \in Range(Keys) |->
                        IF k = "bullet_points" THEN findMany(info, normAliases(cfg, k))
                        ELSE findOne(info, normAliases(cfg, k))]
    IN  [mapping |-> mapping, missing |-> missingOf(mapping)]

\* a.split(" ").filter(Boolean): the maximal runs of a without a space.
RECURSIVE Split(_, _)
Split(a, word) ==
    IF a = <<>> THEN (IF word = <<>> THEN {} ELSE {word})
    ELSE IF Head(a) = " "
         THEN (IF word = <<>> THEN {} ELSE {word}) \cup Split(Tail(a), <<>>)
         ELSE Split(Tail(a), Append(word, Head(a)))

\* aliases.flatMap((a) => a.split(" ")).filter(Boolean)
tokens(aliases) == UNION {Split(aliases[i], <<>>) : i \in 1..Len(aliases)}

\* candidatesFor's score without the token rule.
scoreNoTokens(h, aliases) ==
    IF norm(h) \in Range(aliases) THEN 3
    ELSE IF \E a \in Range(aliases) : Contains(norm(h), a) THEN 2
    ELSE 0

\* candidatesFor: the score of one header.
score(h, aliases) ==
    LET hn == norm(h)
    IN  IF hn \in Range(aliases) THEN 3
        ELSE IF \E a \in Range(aliases) : Contains(hn, a) THEN 2
        ELSE IF \E t \in tokens(aliases) : Contains(hn, t) THEN 1
        ELSE 0

\* The collation that String.prototype.localeCompare applies: a character's
\* primary weight (space, punctuation, digits, letters without their case).
PrimaryWeight(c) ==
    CASE c = " " -> 1
      [] c = "_" -> 2
      [] c = "-" -> 3
      [] c = "!" -> 4
      [] c = "1" -> 5
      [] c \in {"a", "A"} -> 6
      [] c \in {"b", "B"} -> 7
      [] OTHER -> 8

\* Lower case before upper case, when the primary weights are all equal.
TertiaryWeight(c) == IF c \in {"A", "B"} THEN 1 ELSE 0

\* The comparison of two strings by the weights w of their characters: -1, 0, 1.
RECURSIVE CompareBy(_, _, _)
CompareBy(x, y, level) ==
    LET w(c) == IF level = 1 THEN PrimaryWeight(c) ELSE TertiaryWeight(c)
    IN  IF x = <<>> /\ y = <<>> THEN 0
        ELSE IF x = <<>> THEN -1
        ELSE IF y = <<>> THEN 1
        ELSE IF w(Head(x)) < w(Head(y)) THEN -1
        ELSE IF w(Head(x)) > w(Head(y)) THEN 1
        ELSE CompareBy(Tail(x), Tail(y), level)

\* a.localeCompare(b)
localeCompare(x, y) ==
    IF CompareBy(x, y, 1) # 0 THEN CompareBy(x, y, 1) ELSE CompareBy(x, y, 2)

\* (a, b) => b.score - a.score || a.header.localeCompare(b.header)
compareScored(a, b) ==
    IF b.score - a.score # 0 THEN b.score - a.score
    ELSE localeCompare(a.header, b.header)

\* Array.prototype.sort with compareScored: a stable sort.
RECURSIVE Insert(_, _)
Insert(x, sorted) ==
    IF sorted = <<>> THEN <<x>>
    ELSE IF compareScored(Head(sorted), x) <= 0 THEN <<Head(sorted)>> \o Insert(x, Tail(sorted))
    ELSE <<x>> \o sorted

RECURSIVE Sort(_)
Sort(xs) == IF xs = <<>> THEN <<>> ELSE Insert(xs[Len(xs)], Sort(SubSeq(xs, 1, Len(xs) - 1)))

\* .slice(0, limit)
Slice(xs, limit) == SubSeq(xs, 1, IF limit < Len(xs) THEN limit ELSE Len(xs))

candidatesFor(headers, cfg, key, limit) ==
    LET aliases == normAliases(cfg, key)
        all == [i \in 1..Len(headers) |->
                    [header |-> headers[i], score |-> score(headers[i], aliases)]]
        scored == Sort(SelectSeq(all, LAMBDA x : x.score > 0))
    IN  Slice(Dedup([i \in 1..Len(scored) |-> scored[i].header]), limit)

----------------------------------------------------------------------------
(* The file specification: the jobs of server.js from the request to their  *)
(* end, with the store's cleanup timer, GET /api/tmp/:token and the clock.   *)
(* One job is followed; StoreSpec has the jobs side by side.                *)

Followed == {"j1"}

FileNext ==
    \/ \E j \in Followed :
          \/ Request(j)
          \/ RunReturn(j)
          \/ BgStart(j)
          \/ StatusReturn(j)
          \/ PollWake(j)
          \/ DownloadReturn(j)
          \/ SuccessMailReturn(j)
    \/ Tick
    \/ Sweep
    \/ \E t \in Tokens : ServeTmp(t)

FileSpec == StoreInit /\ [][FileNext]_vars

----------------------------------------------------------------------------
(* The mapper specification: one call of autoMap on every list of at most   *)
(* MaxHeaders headers, under several alias catalogs.  The two servers'      *)
(* autoMap are the same text.                                               *)

MaxHeaders == 3

AmHeaders ==
    {<<>>, <<"a">>, <<"A">>, <<" ", "a">>, <<"a", " ", "b">>, <<"b", "_", "a">>, <<"!">>}

AliasLists ==
    {<<>>, << <<"a">> >>, << <<"A", "_", "b">> >>, << <<"b">>, <<"1">> >>}

AmCfgs ==
    {[product_images |-> p, title |-> << <<"b">> >>, description |-> << <<"a", " ", "b">> >>,
      bullet_points |-> q] : p, q \in AliasLists}

AutoMapInit ==
    /\ NoValidate
    /\ fIn \in {[fn |-> "autoMap", headers |-> hs, key |-> "", limit |-> 0, aliases |-> c] :
                    hs \in SeqsUpTo(AmHeaders, MaxHeaders), c \in AmCfgs}
    /\ fOut = NoRet
    /\ tmpRes = NoTmp
    /\ variant = "pull"
    /\ mailer = "smtp"
    /\ retries = 1
    /\ JobsIdle

\* const { mapping, missing } = autoMap(columns)
AutoMap ==
    /\ fIn.fn = "autoMap"
    /\ ~fOut.called
    /\ LET r == autoMap(fIn.headers, fIn.aliases)
       IN  fOut' = [called |-> TRUE, mapping |-> r.mapping, missing |-> r.missing]
    /\ UNCHANGED <<vvars, fIn, tmpRes, cfgvars, jobvars>>

AutoMapNext == AutoMap

AutoMapSpec == AutoMapInit /\ [][AutoMapNext]_vars

----------------------------------------------------------------------------
(* The candidates specification: one call of candidatesFor on every list of *)
(* at most MaxHeaders headers, for every limit up to MaxLimit.              *)

MaxLimit == 3

CdHeaders ==
    {<<>>, <<"a">>, <<"A">>, <<"B">>, <<" ", "a">>, <<"b", " ", "a">>, <<"a", "_", "b">>,
     <<"!">>}

CdAliasLists == {<< <<"a">> >>, << <<"A", "_", "b">> >>, << <<"b">>, <<"a", " ", "b">> >>}

CandidatesInit ==
    /\ NoValidate
    /\ fIn \in {[fn |-> "candidatesFor", headers |-> hs, key |-> "title", limit |-> n,
                 aliases |-> [product_images |-> <<>>, title |-> al, description |-> <<>>,
                              bullet_points |-> <<>>]] :
                    hs \in SeqsUpTo(CdHeaders, MaxHeaders), n \in 1..MaxLimit,
                    al \in CdAliasLists}
    /\ fOut = NoRet
    /\ tmpRes = NoTmp
    /\ variant = "pull"
    /\ mailer = "smtp"
    /\ retries = 1
    /\ JobsIdle

\* candidates[key] = candidatesFor(columns, key, limit)
Candidates ==
    /\ fIn.fn = "candidatesFor"
    /\ ~fOut.called
    /\ fOut' = [called |-> TRUE,
                value |-> candidatesFor(fIn.headers, fIn.aliases, fIn.key, fIn.limit)]
    /\ UNCHANGED <<vvars, fIn, tmpRes, cfgvars, jobvars>>

CandidatesNext == Candidates

CandidatesSpec == CandidatesInit /\ [][CandidatesNext]_vars

----------------------------------------------------------------------------
(* The backoff specification: one call of part_001's fetchJsonWithRetry     *)
(* with its timers.  Time is in milliseconds; it passes only up to the next *)
(* timer that is due, and a due timer's callback runs before later ones.    *)

\* Math.random(), in thousandths.
Randoms == {0, 499, 999}

\* The time from an attempt's start to the response of a fetch that is
\* answered before its timer.
Latencies == {1000}

MaxAttempts == 3    \* the largest INFERENCE_RETRIES of the backoff specification

FetchParams ==
    [timeoutMs : {3000, 100000}, baseDelayMs : {2000}, maxDelayMs : {3000, 60000}]

Min(a, b) == IF a < b THEN a ELSE b

\* The exponential part without its cap.
backoffUncapped(attempt, p) == p.baseDelayMs * 2 ^ (attempt - 1)

\* const exp = Math.min(maxDelayMs, baseDelayMs * Math.pow(2, attempt - 1))
backoffExp(attempt, p) == Min(p.maxDelayMs, p.baseDelayMs * 2 ^ (attempt - 1))

\* const jitter = Math.floor(Math.random() * 500)
backoffJitter(random) == (random * 500) \div 1000

NoTimer == [armed |-> FALSE, at |-> 0, of |-> 0, fired |-> FALSE]

\* const t = setTimeout(() => controller.abort(), timeoutMs), in attempt n at t
setTimer(n, t, p) == [armed |-> TRUE, at |-> t + p.timeoutMs, of |-> n, fired |-> FALSE]

\* The call's state as the first attempt begins.
FetchBegun(p) ==
    [called |-> FALSE, attempt |-> 1, phase |-> "fetching", timer |-> setTimer(1, 0, p),
     wake |-> 0, prevExp |-> 0, exp |-> 0, jitter |-> 0, wait |-> 0, last |-> "none",
     failedAt |-> 0, abortedBy |-> 0, stale |-> FALSE]

\* The catch block and the finally block after the error e of response id at
\* time t: the call throws and its timer is cleared, or it sleeps, its timer
\* still set.
Caught(s, e, id, t, random) ==
    IF GivesUp(e, s.attempt, retries)
    THEN [s EXCEPT !.called = TRUE, !.phase = "threw", !.timer = NoTimer, !.last = id,
                   !.failedAt = s.attempt]
    ELSE LET exp == backoffExp(s.attempt, fIn)
             jitter == backoffJitter(random)
             wait == exp + jitter
         IN  [s EXCEPT !.phase = "sleeping", !.last = id, !.failedAt = s.attempt,
                       !.prevExp = s.exp, !.exp = exp, !.jitter = jitter, !.wait = wait,
                       !.wake = t + wait]

BackoffInit ==
    /\ NoValidate
    /\ fIn \in {[fn |-> "fetchJsonWithRetry", timeoutMs |-> p.timeoutMs,
                 baseDelayMs |-> p.baseDelayMs, maxDelayMs |-> p.maxDelayMs] :
                    p \in FetchParams}
    /\ fOut = FetchBegun(fIn)
    /\ tmpRes = NoTmp
    /\ variant = "inline"
    /\ mailer = "smtp"
    /\ retries \in 1..MaxAttempts
    /\ JobsIdle

\* await fetch(url, ...) and await r.text() settle before the attempt is
\* aborted: the body is parsed and returned (finally clears the timer), or
\* the catch block runs.
FetchSettles ==
    /\ fIn.fn = "fetchJsonWithRetry"
    /\ fOut.phase = "fetching"
    /\ \E r \in InferenceResponses \ {Aborted}, random \in Randoms :
        LET e == AttemptError(r)
        IN  fOut' = IF e = NoErr
                    THEN [fOut EXCEPT !.called = TRUE, !.phase = "returned",
                                      !.timer = NoTimer, !.last = r.id]
                    ELSE Caught(fOut, e, r.id, now, random)
    /\ UNCHANGED <<vvars, fIn, tmpRes, cfgvars, jobvars>>

\* The timer's callback: controller.abort().  The pending fetch of the
\* controller's attempt rejects with an AbortError and the catch block runs;
\* an attempt that has ended is not affected.
TimerFires ==
    /\ fIn.fn = "fetchJsonWithRetry"
    /\ fOut.timer.armed
    /\ ~fOut.timer.fired
    /\ now >= fOut.timer.at
    /\ \E random \in Randoms :
        LET s == [fOut EXCEPT !.timer.fired = TRUE]
        IN  fOut' = IF s.phase = "fetching" /\ s.timer.of = s.attempt
                    THEN Caught([s EXCEPT !.abortedBy = s.timer.of], AttemptError(Aborted),
                                Aborted.id, now, random)
                    ELSE [s EXCEPT !.stale = TRUE]
    /\ UNCHANGED <<vvars, fIn, tmpRes, cfgvars, jobvars>>

\* await sleep(wait) ends: finally clears the attempt's timer and the loop's
\* next attempt sets its own.
SleepEnds ==
    /\ fIn.fn = "fetchJsonWithRetry"
    /\ fOut.phase = "sleeping"
    /\ now >= fOut.wake
    /\ fOut' = [fOut EXCEPT !.attempt = @ + 1, !.phase = "fetching",
                            !.timer = setTimer(fOut.attempt + 1, now, fIn)]
    /\ UNCHANGED <<vvars, fIn, tmpRes, cfgvars, jobvars>>

\* The timers that are set and have not run: the attempt's, the sleep's.
Pending ==
    (IF fOut.timer.armed /\ ~fOut.timer.fired THEN {fOut.timer.at} ELSE {})
    \cup (IF fOut.phase = "sleeping" THEN {fOut.wake} ELSE {})

\* Time passes, never beyond a timer that is due.
TimePasses ==
    /\ fIn.fn = "fetchJsonWithRetry"
    /\ fOut.phase \in {"fetching", "sleeping"}
    /\ \E t \in Pending \cup (IF fOut.phase = "fetching"
                               THEN {fOut.timer.at - fIn.timeoutMs + d : d \in Latencies}
                               ELSE {}) :
        /\ t > now
        /\ \A u \in Pending : t <= u
        /\ now' = t
    /\ UNCHANGED <<vvars, sidevars, cfgvars, TEMP_FILES, pc, req, sent, resp, jobId, log, fetchSt,
                   waitSt, outcome>>

BackoffNext == FetchSettles \/ TimerFires \/ SleepEnds \/ TimePasses

BackoffSpec == BackoffInit /\ [][BackoffNext]_vars

----------------------------------------------------------------------------
(* The norm specification: one call of norm on every string of at most      *)
(* MaxLen characters.                                                       *)

MaxLen == 3

Chars ==
    {"a", "A", "i", "1", " ", NBSP, TAB, "_", "-", "!", CYR_DE, cyr_de, I_DOT, DOT_ABOVE}

Strings == SeqsUpTo(Chars, MaxLen)

NormInit ==
    /\ NoValidate
    /\ fIn \in {[NoFn EXCEPT !.fn = "norm", !.headers = <<h>>] : h \in Strings}
    /\ fOut = NoRet
    /\ tmpRes = NoTmp
    /\ variant \in {"pull", "inline"}
    /\ mailer = "smtp"
    /\ retries = 1
    /\ JobsIdle

\* norm(h)
Norm ==
    /\ fIn.fn = "norm"
    /\ ~fOut.called
    /\ fOut' = [called |-> TRUE, value |-> norm(fIn.headers[1])]
    /\ UNCHANGED <<vvars, fIn, tmpRes, cfgvars, jobvars>>

NormNext == Norm

NormSpec == NormInit /\ [][NormNext]_vars

----------------------------------------------------------------------------
(* Properties.                                                              *)

Count(s, x) == Cardinality({i \in 1..Len(s) : s[i] = x})

\* Some event of `before` stands in l before position i.
Preceded(l, i, before) == \E k \in 1..(i - 1) : l[k] \in before

\* C1: in both variants, once a valid request's call to the external service
\* has been started, the acknowledgment {jobId, status: "queued"} has already
\* been sent, whatever that call goes on to do.
C1_AckBeforeSubmit ==
    \A j \in Jobs : "submit" \in Range(log[j]) => resp[j] = Queued

Is2xxJson(r) == r.throws = NoErr /\ r.status \in 200..299 /\ r.json.valid

Is4xxNot429(r) == r.status \in 400..499 /\ r.status # 429

\* C3: fetchJsonWithRetry never retries an HTTP 4xx response other than 429:
\* whatever its body, the call has thrown, and after a first attempt no
\* backoff sleep was made.
C3_No4xxRetry ==
    \A j \in Jobs :
        Is4xxNot429(fetchSt[j].last) =>
            /\ fetchSt[j].out = "threw"
            /\ (fetchSt[j].attempt = 1 => fetchSt[j].sleeps = 0)

\* The job's external computation succeeded and its payload was obtained:
\* COMPLETED with an inline payload or a downloaded one (server.js), a 2xx
\* JSON body with ok and xlsx_base64 (part_001).
GotResult(j) ==
    IF variant = "pull"
    THEN /\ waitSt[j].last.status = "COMPLETED"
         /\ \/ waitSt[j].last.output = "base64"
            \/ waitSt[j].last.output = "url" /\ waitSt[j].download = "ok"
    ELSE /\ Is2xxJson(fetchSt[j].last)
         /\ fetchSt[j].last.json.ok
         /\ fetchSt[j].last.json.xlsx_base64

\* C4: for every job of either variant the mail carrying the result is sent
\* exactly once when the job has obtained a successful result with its
\* payload, and not at all otherwise, whatever the mail sender answers.
C4_SuccessMailOnce ==
    \A j \in Jobs :
        Count(log[j], "mail_success") = (IF GotResult(j) THEN 1 ELSE 0)

\* Two jobs have each been sent the result mail once, the sender failing
\* for one of them and succeeding for the other.
C4_Witness ==
    \E j, k \in Jobs :
        /\ outcome[j] = MailFailed
        /\ outcome[k] = Completed
        /\ Count(log[j], "mail_success") = 1
        /\ Count(log[k], "mail_success") = 1

\* The place of an event in submit -> poll -> fetch-result -> notify.
Stage(e) ==
    CASE e \in {"submit", "submit_ok"} -> 1
      [] e \in {"poll", "status_completed"} -> 2
      [] e \in {"fetch_result", "result"} -> 3
      [] e \in {"mail_started", "mail_success"} -> 4
      [] OTHER -> 0

Staged(l) == SelectSeq(l, LAMBDA e : Stage(e) > 0)

Ordered(l, mails) ==
    /\ \A i \in 1..Len(l) :
        /\ l[i] \in mails => Preceded(l, i, {"result"})
        /\ l[i] = "fetch_result" =>
              Preceded(l, i, IF variant = "pull" THEN {"status_completed"} ELSE {"submit_ok"})
        /\ l[i] = "result" => Preceded(l, i, {"fetch_result"})
        /\ l[i] = "status_completed" => Preceded(l, i, {"poll"})
        /\ l[i] = "poll" => Preceded(l, i, {"submit_ok"})
        /\ l[i] = "submit_ok" => Preceded(l, i, {"submit"})

\* C5 as stated: for one job, submit, polling, result fetch and notification
\* happen in that order: no mail of the job precedes its result fetch, no
\* result fetch a terminal success status, no poll a successful submit.
C5_StrictOrder ==
    \A j \in Jobs :
        /\ Ordered(log[j], {"mail_started", "mail_success"})
        /\ \A i, k \in 1..Len(Staged(log[j])) :
              i < k => Stage(Staged(log[j])[i]) <= Stage(Staged(log[j])[k])

\* C5 as amended: for one job, submit, polling, result fetch and the mail
\* carrying the result happen in that order: the result mail never precedes
\* the result fetch, no result fetch a terminal success status, no poll a
\* successful submit; the inline variant's "being processed" mail is the one
\* notification sent before the submit call.
C5_ResultMailOrder ==
    \A j \in Jobs :
        LET l == SelectSeq(log[j], LAMBDA e : e # "mail_started")
        IN  /\ Ordered(l, {"mail_success"})
            /\ \A i, k \in 1..Len(Staged(l)) :
                  i < k => Stage(Staged(l)[i]) <= Stage(Staged(l)[k])
            /\ \A i \in 1..Len(log[j]) :
                  log[j][i] = "mail_started" =>
                      /\ variant = "inline"
                      /\ ~Preceded(log[j], i, {"submit", "mail_started"})

\* One job polled, downloaded its result and mailed it; the other failed.
C5_Witness ==
    \E j, k \in Jobs :
        /\ outcome[j] = Completed
        /\ Count(log[j], "poll") > 1
        /\ waitSt[j].download = "ok"
        /\ outcome[k].state = "failed"

TransientWhy(why) == why \in {"net", "abort", "h429", "h500", "h503"}

\* C6: in both variants a call to the external service (submit, status poll,
\* result fetch) that ends in a transient failure fails the job only when it
\* was attempted the configured maximum number of times.
C6_TransientRetried ==
    \A j \in Jobs :
        (outcome[j].state = "failed" /\ TransientWhy(outcome[j].why)) =>
            outcome[j].attempts = retries

Polling(j) == pc[j] \in {"status", "poll_sleep"}

\* C7: waitRunpod never sleeps again once the time since it started exceeds
\* timeoutMs (it throws the timeout error instead), so a status query is
\* only ever issued within timeoutMs + intervalMs of the start and the loop
\* ends no later than that query's return; and, every query returning, the
\* loop ends.
C7_WaitTimeout ==
    /\ [](\A j \in Jobs :
            /\ pc[j] = "poll_sleep" => waitSt[j].elapsed <= timeoutMs
            /\ pc[j] = "status" => waitSt[j].elapsed <= timeoutMs + intervalMs
            /\ waitSt[j].out = "timeout" =>
                  /\ waitSt[j].elapsed > timeoutMs
                  /\ waitSt[j].elapsed <= timeoutMs + intervalMs + MaxQueryTime
                  /\ outcome[j] = Failed("wait", "Runpod wait timeout", 1))
    /\ \A j \in Jobs : <>(~Polling(j))

\* A wait that timed out at the latest possible moment.
C7_Witness ==
    \E j \in Jobs :
        /\ waitSt[j].out = "timeout"
        /\ waitSt[j].elapsed = timeoutMs + intervalMs + MaxQueryTime

RejectedAs(r, errors) == r.code = 400 /\ r.error \in errors

\* The rejections for the mapping and for a model id not in the configuration.
NothingCreated == {"Invalid mapping", UnknownModel("pull"), UnknownModel("inline")}

\* C8: the step in which POST /api/jobs rejects a request for its mapping or
\* for an unknown model mints no job identifier, stores no file, makes no
\* external call, sends no mail, and leaves the store and every other job as
\* they were.
C8_RejectCreatesNothing ==
    [][\A j \in Jobs :
          (resp[j] = NoResp /\ RejectedAs(resp'[j], NothingCreated)) =>
              /\ ~jobId'[j]
              /\ log'[j] = <<>>
              /\ pc'[j] = "done"
              /\ TEMP_FILES' = TEMP_FILES
              /\ fetchSt' = fetchSt /\ waitSt' = waitSt /\ outcome' = outcome
              /\ \A k \in Jobs \ {j} :
                    /\ pc'[k] = pc[k] /\ req'[k] = req[k] /\ resp'[k] = resp[k]
                    /\ jobId'[k] = jobId[k] /\ log'[k] = log[k]]_vars

\* A request was rejected for its models while the other job, created
\* before, keeps its stored file and its place in the polling loop.
C8_Witness ==
    \E j, k \in Jobs :
        /\ RejectedAs(resp[j], {UnknownModel("pull")})
        /\ jobId[k] /\ pc[k] = "poll_sleep"
        /\ \E t \in Tokens : TEMP_FILES[t].buffer = k

\* No column has the normalized form of h: h is among the current headers
\* under neither reading (raw equality, equality of normalized forms).
Unknown(h, columns) == \A i \in 1..Len(columns) : norm(columns[i]) # norm(h)

Names(e, h) == h \in Range(e.cols)

\* The errors are those of product_images, then title, then description,
\* then bullet_points: each interpolates only its own field's name or value.
InFieldOrder(errors, m) ==
    \E a, b, c \in 0..Len(errors) :
        /\ a <= b /\ b <= c
        /\ \A i \in 1..Len(errors) :
            LET e == errors[i]
                own == IF i <= a THEN <<"product_images", <<m.product_images>> >>
                       ELSE IF i <= b THEN <<"title", <<m.title>> >>
                       ELSE IF i <= c THEN <<"description", <<m.description>> >>
                       ELSE <<"bullet_points", bpInput(m)>>
            IN  /\ e.field \in {"", own[1]}
                /\ Range(e.cols) \subseteq Range(own[2])

\* C9: validateMapping does not short-circuit: the errors it returns hold one
\* error naming the header for every field, and every bullet_points entry,
\* whose header is not among the current headers, in the order
\* product_images, title, description, bullet_points; ok is false iff there
\* is an error.
C9_NoShortCircuit ==
    vOut.called =>
        LET m == vIn.mapping
            bad == {h \in {m.product_images, m.title, m.description}
                              \cup Range(bpInput(m)) :
                        h # Falsy /\ Unknown(h, vIn.columns)}
        IN  /\ \A h \in bad : \E i \in 1..Len(vOut.errors) : Names(vOut.errors[i], h)
            /\ InFieldOrder(vOut.errors, m)
            /\ vOut.ok <=> (vOut.errors = <<>>)

\* C10: validateMapping accepts a mapped header iff some current header has
\* the same normalized form: no error names it exactly then.
C10_NormEquality ==
    vOut.called =>
        \A h \in {vIn.mapping.product_images, vIn.mapping.title,
                  vIn.mapping.description} \ {Falsy} :
            (~\E i \in 1..Len(vOut.errors) : Names(vOut.errors[i], h))
                <=> ~Unknown(h, vIn.columns)

\* C11: GET /api/tmp/:token answers 404 for every token that is unknown or
\* whose entry has now >= expiresAt, at the instant now = expiresAt and with
\* the entry not yet swept included, and answers with the stored entry for
\* every known token with now < expiresAt.
C11_ServeUnexpiredOnly ==
    [][\A t \in Tokens :
          (tmpRes' # tmpRes /\ tmpRes'.token = t) =>
              IF TEMP_FILES[t] = NoEntry \/ now >= TEMP_FILES[t].expiresAt
              THEN tmpRes'.code = 404 /\ tmpRes'.body = ""
              ELSE /\ tmpRes'.code = 200
                   /\ tmpRes'.body = TEMP_FILES[t].buffer
                   /\ tmpRes'.mime = TEMP_FILES[t].mime
                   /\ tmpRes'.filename = TEMP_FILES[t].filename]_vars

\* A token was refused at the very instant of its expiry, its entry still in
\* the store.
C11_Witness ==
    /\ tmpRes.code = 404
    /\ tmpRes.at = now
    /\ TEMP_FILES[tmpRes.token] # NoEntry
    /\ TEMP_FILES[tmpRes.token].expiresAt = now

\* The job was acknowledged and its background task has ended.
Ended(j) == resp[j] = Queued /\ pc[j] = "done"

\* C12: a mail-send failure never alters a job's outcome and is never
\* retried: each mail is sent at most once, a job whose background task has
\* ended had its external computation dispatched whatever the mail sender
\* answered, and it ended with its result mailed (delivered or not) exactly
\* when the external service gave a result, failed otherwise.
C12_MailFailureHarmless ==
    \A j \in Jobs :
        /\ Count(log[j], "mail_started") <= 1
        /\ Count(log[j], "mail_success") <= 1
        /\ Ended(j) =>
              /\ "submit" \in Range(log[j])
              /\ IF GotResult(j)
                 THEN outcome[j].state \in {"completed", "mail_failed"}
                 ELSE outcome[j].state = "failed"

\* The terminal states of a background task: the result mail was attempted,
\* or the failure was caught and logged.
Terminal(j) ==
    \/ outcome[j].state \in {"completed", "mail_failed"} /\ "mail_success" \in Range(log[j])
    \/ outcome[j].state = "failed"

\* C13: with the process running on and every external call and mail send
\* returning or failing in the end, every acknowledged job's background task
\* ends, and it ends in a terminal state (Completed with the result mail
\* attempted, or Failed with the failure recorded) with its external
\* computation submitted.
C13_AckedJobTerminates ==
    /\ \A j \in Jobs : (resp[j] = Queued) ~> (pc[j] = "done")
    /\ [](\A j \in Jobs : Ended(j) => (Terminal(j) /\ "submit" \in Range(log[j])))

NormCalled == fIn.fn = "norm" /\ fOut.called

\* C14: norm is idempotent: norm(norm(h)) = norm(h) for every string h, with
\* non-breaking spaces, runs of '_' and '-', punctuation, tabs and mixed case.
C14_NormIdempotent ==
    NormCalled => norm(fOut.value) = fOut.value

\* A string with a joiner run before trailing punctuation, changed by norm.
C14_Witness ==
    /\ NormCalled
    /\ fIn.headers[1] = <<"A", "_", "!">>
    /\ fOut.value = <<"a">>

LettersDigits(s) == SelectSeq(s, LAMBDA c : IsLetter(c) \/ IsDigit(c))

\* C15: norm drops no letter or digit of any script: the letters and digits
\* of norm(h) are those of the lower-cased h, in order; and norm(h) holds
\* only letters, digits and single spaces, none leading or trailing.
C15_KeepsLettersDigits ==
    NormCalled =>
        LET out == fOut.value
        IN  /\ LettersDigits(out) = LettersDigits(LowerCased(fIn.headers[1]))
            /\ \A i \in 1..Len(out) : IsLetter(out[i]) \/ IsDigit(out[i]) \/ out[i] = " "
            /\ \A i \in 1..(Len(out) - 1) : ~(out[i] = " " /\ out[i + 1] = " ")
            /\ out # <<>> => (out[1] # " " /\ out[Len(out)] # " ")

\* A header of Cyrillic letters and a space keeps its letters.
C15_Witness ==
    /\ NormCalled
    /\ fIn.headers[1] = <<CYR_DE, " ", cyr_de>>
    /\ fOut.value = <<cyr_de, " ", cyr_de>>

AutoMapped == fIn.fn = "autoMap" /\ fOut.called

\* The normalized aliases of a field in the call's catalog.
AliasesOf(key) == {norm(a) : a \in Range(fIn.aliases[key])}

\* The header, as the mapper names it (trimmed), equals resp. contains an
\* alias of the field in normalized form.
EqualsAlias(h, key) == trim(h) # <<>> /\ norm(h) \in AliasesOf(key)
ContainsAlias(h, key) == trim(h) # <<>> /\ \E a \in AliasesOf(key) : Contains(norm(h), a)

\* The place of a header's first occurrence.
FirstAt(x) == FirstIndex({n \in 1..Len(fIn.headers) : trim(fIn.headers[n]) = x})

Position(k) == CHOOSE i \in 1..Len(Keys) : Keys[i] = k

\* C17: in autoMap's output a field is in missing iff its value is null
\* (product_images, title, description) or the empty sequence
\* (bullet_points); missing is in the order product_images, title,
\* description, bullet_points; and when every header is the empty string all
\* four fields are missing and the mapping is null, null, null, [].
C17_MissingIffUnmapped ==
    AutoMapped =>
        LET m == fOut.mapping
            missing == fOut.missing
        IN  /\ \A k \in Range(Keys) :
                  (k \in Range(missing)) <=>
                      (IF k = "bullet_points" THEN m[k] = <<>> ELSE m[k] = NULL)
            /\ \A i, k \in 1..Len(missing) :
                  i < k => Position(missing[i]) < Position(missing[k])
            /\ (\A h \in Range(fIn.headers) : h = <<>>) =>
                  /\ missing = Keys
                  /\ m = [product_images |-> NULL, title |-> NULL, description |-> NULL,
                          bullet_points |-> <<>>]

\* Every header is the empty string; every field is missing.
C17_Witness ==
    /\ AutoMapped
    /\ fIn.headers = << <<>>, <<>> >>
    /\ fOut.missing = Keys

\* C18: autoMap's pick for a single-valued field is the first header whose
\* normalized form equals a normalized alias, even after a header that only
\* contains one; else the first header whose normalized form contains a
\* normalized alias; else null.
C18_FindOnePick ==
    AutoMapped =>
        \A key \in {"product_images", "title", "description"} :
            LET E == {n \in 1..Len(fIn.headers) : EqualsAlias(fIn.headers[n], key)}
                P == {n \in 1..Len(fIn.headers) : ContainsAlias(fIn.headers[n], key)}
            IN  fOut.mapping[key] =
                    (IF E # {} THEN trim(fIn.headers[FirstIndex(E)])
                     ELSE IF P # {} THEN trim(fIn.headers[FirstIndex(P)])
                     ELSE NULL)

\* The exact match is picked although a header containing the alias comes
\* first.
C18_Witness ==
    /\ AutoMapped
    /\ fIn.aliases.product_images = << <<"a">> >>
    /\ fIn.headers = << <<"b", "_", "a">>, <<"A">> >>
    /\ fOut.mapping.product_images = <<"A">>


CandidatesCalled == fIn.fn = "candidatesFor" /\ fOut.called

\* The score the catalog gives a header: 3 when its normalized form equals
\* an alias of the field, 2 when it contains one, 1 when it contains a
\* space-separated token of one, else 0.
TokensOf(a) ==
    {SubSeq(a, p[1], p[2]) : p \in
        {q \in (1..Len(a)) \X (1..Len(a)) :
            /\ q[1] <= q[2]
            /\ \A n \in q[1]..q[2] : a[n] # " "
            /\ (q[1] = 1 \/ a[q[1] - 1] = " ")
            /\ (q[2] = Len(a) \/ a[q[2] + 1] = " ")}}

ScoreOf(h) ==
    LET A == AliasesOf(fIn.key)
    IN  IF norm(h) \in A THEN 3
        ELSE IF \E a \in A : Contains(norm(h), a) THEN 2
        ELSE IF \E a \in A : \E t \in TokensOf(a) : Contains(norm(h), t) THEN 1
        ELSE 0

\* The UTF-16 code unit of a character of the candidate headers.
CodeUnit(c) ==
    CASE c = " " -> 32
      [] c = "!" -> 33
      [] c = "-" -> 45
      [] c = "1" -> 49
      [] c = "A" -> 65
      [] c = "B" -> 66
      [] c = "_" -> 95
      [] c = "a" -> 97
      [] c = "b" -> 98
      [] OTHER -> 99

\* x is before y in the lexicographic order of the code units.
RECURSIVE LexBefore(_, _)
LexBefore(x, y) ==
    IF y = <<>> THEN FALSE
    ELSE IF x = <<>> THEN TRUE
    ELSE IF CodeUnit(Head(x)) # CodeUnit(Head(y)) THEN CodeUnit(Head(x)) < CodeUnit(Head(y))
    ELSE LexBefore(Tail(x), Tail(y))

\* x is before y in the collation of localeCompare.
CollatesBefore(x, y) == localeCompare(x, y) < 0

\* h is ranked before g: a higher score, or the same score and an earlier
\* place in the tie order.
RanksBefore(h, g, byCodeUnits) ==
    \/ ScoreOf(h) > ScoreOf(g)
    \/ /\ ScoreOf(h) = ScoreOf(g)
       /\ IF byCodeUnits THEN LexBefore(h, g) ELSE CollatesBefore(h, g)

\* The candidates are the best ranked headers of score > 0, each once, in
\* rank order, at most limit of them, and all of them unless the limit cuts.
RankedCandidates(byCodeUnits) ==
    LET c == fOut.value
        scored == {h \in Range(fIn.headers) : ScoreOf(h) > 0}
    IN  /\ Range(c) \subseteq scored
        /\ \A i, k \in 1..Len(c) : i < k => RanksBefore(c[i], c[k], byCodeUnits)
        /\ Len(c) <= fIn.limit
        /\ \A h \in scored \ Range(c) :
              /\ Len(c) = fIn.limit
              /\ \A i \in 1..Len(c) : RanksBefore(c[i], h, byCodeUnits)

\* C19: candidatesFor returns only headers of score > 0, by non-increasing
\* score with ties in the order of localeCompare on the raw header (letters
\* compared without their case first, lower case before upper case on a
\* tie), without duplicates, at most limit of them; every header of score
\* > 0 is present unless the limit cuts it off.
C19_RankedByCollation == CandidatesCalled => RankedCandidates(FALSE)

\* C19 as stated: the ties are in the lexicographic order of the raw header.
C19_RankedLexicographic == CandidatesCalled => RankedCandidates(TRUE)

\* Three headers of score 1, cut to two by the limit: the lower-case one is
\* first although the code unit of "B" is the smaller.
C19_Witness ==
    /\ CandidatesCalled
    /\ fIn.aliases.title = << <<"A", "_", "b">> >>
    /\ fIn.headers = << <<"B">>, <<"a">>, <<"b", " ", "a">> >>
    /\ fIn.limit = 2
    /\ fOut.value = << <<"a">>, <<"B">> >>


\* C20: for each of product_images, title and description, validateMapping
\* reports "Missing mapping: <field>" when the field is absent or empty in
\* the mapping, and "Mapped column not found: <header>" only for a header
\* that a field holds and that is not among the current headers: an absent
\* field is never reported as a column not found, a present one never as
\* missing.
C20_MissingVsUnknown ==
    vOut.called =>
        LET m == vIn.mapping
            reported == Range(vOut.errors)
        IN  /\ \A f \in {"product_images", "title", "description"} :
                  (m[f] = Falsy) <=> (Missing(f) \in reported)
            /\ \A e \in reported :
                  e.msg = "Mapped column not found" =>
                      \E f \in {"product_images", "title", "description"} :
                          /\ m[f] # Falsy
                          /\ e = NotFound(m[f])
                          /\ m[f] \notin Range(vIn.columns)

\* The mapping's bullet_points as a sequence: a sequence as it is, a single
\* value as a one-element sequence, nothing as the empty sequence.
AsSequence(b) == IF b.arr THEN b.v ELSE IF b.v[1] = Falsy THEN <<>> ELSE b.v

\* C21: validateMapping takes a single bullet_points value as a one-element
\* sequence; it reports "Missing mapping: bullet_points" iff the sequence is
\* empty; it reports one column-not-found error, naming the entry, for each
\* entry that matches no current header, and none for an entry that is a
\* current header, so that ok is false when some entry is unknown; and when
\* ok it returns the entries in input order.
C21_BulletPoints ==
    vOut.called =>
        LET bp == AsSequence(vIn.mapping.bullet_points)
            at == {i \in 1..Len(vOut.errors) :
                      vOut.errors[i].msg = "Mapped bullet_points column not found"}
        IN  /\ (bp = <<>>) <=> (Missing("bullet_points") \in Range(vOut.errors))
            /\ \A i \in at :
                  /\ Len(vOut.errors[i].cols) = 1
                  /\ vOut.errors[i].cols[1] \in Range(bp) \ Range(vIn.columns)
            /\ \A n \in 1..Len(bp) :
                  Unknown(bp[n], vIn.columns) =>
                      /\ Cardinality({i \in at : vOut.errors[i].cols = <<bp[n]>>})
                             = Cardinality({k \in 1..Len(bp) : bp[k] = bp[n]})
                      /\ ~vOut.ok
            /\ vOut.ok =>
                  /\ Len(vOut.bullet_points) = Len(bp)
                  /\ \A n \in 1..Len(bp) : norm(vOut.bullet_points[n]) = norm(bp[n])

Fetching == fIn.fn = "fetchJsonWithRetry"

\* 2^n, by repeated doubling.
RECURSIVE Doubled(_, _)
Doubled(x, n) == IF n = 0 THEN x ELSE Doubled(2 * x, n - 1)

\* The delay without jitter before attempt k.
DelayBefore(k) ==
    IF Doubled(fIn.baseDelayMs, k - 2) < fIn.maxDelayMs
    THEN Doubled(fIn.baseDelayMs, k - 2) ELSE fIn.maxDelayMs

\* C22: the delay fetchJsonWithRetry sleeps before attempt k, 2 <= k <=
\* retries, is min(maxDelayMs, baseDelayMs * 2^(k-2)) plus an integer jitter
\* of 0 to 499 ms; the part without jitter never decreases from one delay to
\* the next and never exceeds maxDelayMs.
C22_BackoffDelay ==
    (Fetching /\ fOut.phase = "sleeping") =>
        LET k == fOut.attempt + 1
        IN  /\ k \in 2..retries
            /\ fOut.wait - fOut.jitter = DelayBefore(k)
            /\ fOut.jitter \in 0..499
            /\ fOut.wait \in DelayBefore(k)..(DelayBefore(k) + 499)
            /\ fOut.wake - fOut.wait \in 0..now
            /\ fOut.prevExp <= fOut.wait - fOut.jitter
            /\ fOut.wait - fOut.jitter <= fIn.maxDelayMs

\* The sleep before the third attempt: the delay is capped at maxDelayMs,
\* with the largest jitter.
C22_Witness ==
    /\ Fetching
    /\ fOut.phase = "sleeping"
    /\ fOut.attempt = 2
    /\ fIn.maxDelayMs = 3000
    /\ fOut.prevExp = 2000
    /\ fOut.wait = 3499

\* C23: each attempt of fetchJsonWithRetry is bounded by timeoutMs: no
\* attempt is pending later than timeoutMs after it began; an attempt aborted
\* by its timer is retried when attempts remain and fails the call when none
\* does; and an attempt is aborted only by its own timer.
C23_AttemptTimeout ==
    Fetching =>
        /\ fOut.phase = "fetching" =>
              /\ fOut.timer.armed /\ fOut.timer.of = fOut.attempt
              /\ now <= fOut.timer.at
              /\ fOut.timer.at - fIn.timeoutMs \in 0..now
        /\ (fOut.last = "abort" /\ fOut.failedAt = fOut.attempt) =>
              /\ fOut.phase = (IF fOut.attempt < retries THEN "sleeping" ELSE "threw")
              /\ fOut.abortedBy = fOut.attempt
        /\ fOut.abortedBy # 0 => fOut.abortedBy <= fOut.attempt /\ fOut.last # "none"

\* The second attempt is aborted by its timer and a third will follow, the
\* first attempt's timer having run during the sleep.
C23_Witness ==
    /\ Fetching
    /\ retries = 3
    /\ fOut.attempt = 2
    /\ fOut.last = "abort"
    /\ fOut.failedAt = 2
    /\ fOut.phase = "sleeping"
    /\ fOut.stale

\* A 2xx response whose body is not JSON, or has ok not true, or has no
\* xlsx_base64.
InvalidResult(r) ==
    r.status \in 200..299 /\ ~(r.json.valid /\ r.json.ok /\ r.json.xlsx_base64)

\* C24: when the inline endpoint answers 2xx with a body that is not valid
\* JSON, has ok not true or lacks xlsx_base64, callInferenceModal fails at
\* once: no backoff sleep and no further attempt follow the response, the
\* job has failed and it sends no success notification.
C24_InvalidResultFails ==
    \A j \in Jobs :
        InvalidResult(fetchSt[j].last) =>
            /\ pc[j] = "done"
            /\ outcome[j].state = "failed"
            /\ "mail_success" \notin Range(log[j])

\* The last status query of the job returned a body with this status.
Polled(j, statuses) == waitSt[j].last.fails = "" /\ waitSt[j].last.status \in statuses

FailureStatuses == {"FAILED", "TIMED_OUT", "CANCELLED"}

\* The classification of COMPLETED and of the failure statuses.
TerminalStatuses ==
    \A j \in Jobs :
        /\ Polled(j, {"COMPLETED"}) => waitSt[j].out = "returned"
        /\ Polled(j, FailureStatuses) =>
              /\ waitSt[j].out = "threw"
              /\ pc[j] = "done"
              /\ outcome[j].state = "failed"
              /\ outcome[j].call = "wait"
              /\ outcome[j].why = waitSt[j].last.status
              /\ waitSt[j].last.error # "" => outcome[j].detail = waitSt[j].last.error

OtherStatus(j) ==
    waitSt[j].last.fails = "" /\ waitSt[j].last.status \notin FailureStatuses \cup {"COMPLETED"}

\* C25: waitRunpod ends polling with success on COMPLETED and with a failure
\* carrying the status and the reported error detail on FAILED, TIMED_OUT and
\* CANCELLED; any other status is not terminal: the wait sleeps the interval
\* and polls again, unless the time since it started exceeds timeoutMs, when
\* it fails with the wait timeout.
C25_StatusClasses ==
    /\ TerminalStatuses
    /\ \A j \in Jobs :
          OtherStatus(j) =>
              \/ waitSt[j].out = "waiting" /\ Polling(j) /\ outcome[j] = NoOutcome
              \/ /\ waitSt[j].out = "timeout"
                 /\ waitSt[j].elapsed > timeoutMs
                 /\ outcome[j] = Failed("wait", "Runpod wait timeout", 1)

\* C25 as stated: any other status leads to another poll, never to a
\* terminal outcome.
C25_OtherNeverTerminal ==
    /\ TerminalStatuses
    /\ \A j \in Jobs :
          OtherStatus(j) => (waitSt[j].out = "waiting" /\ Polling(j) /\ outcome[j] = NoOutcome)

\* One job failed on CANCELLED with the reported detail; the other one saw an
\* unrecognized status and is asleep before its next poll.
C25_Witness ==
    /\ waitSt["j1"].last = StatusError("CANCELLED", "out of memory")
    /\ outcome["j1"].detail = "out of memory"
    /\ waitSt["j2"].last.status = "?"
    /\ pc["j2"] = "poll_sleep"

\* The job's status is COMPLETED and its result payload cannot be obtained:
\* the output is empty or has neither result_file_url nor result_file_base64,
\* or the download of result_file_url was answered with a non-2xx status.
NoPayload(j) ==
    /\ variant = "pull"
    /\ Polled(j, {"COMPLETED"})
    /\ \/ waitSt[j].last.output \in {"none", "other"}
       \/ waitSt[j].last.output = "url" /\ waitSt[j].download \in {"h400", "h503"}

\* C26: in the pull variant a job whose status is COMPLETED but whose result
\* payload cannot be obtained ends Failed, and no mail is sent for it.
C26_NoPayloadFails ==
    \A j \in Jobs :
        NoPayload(j) =>
            /\ pc[j] = "done"
            /\ outcome[j].state = "failed"
            /\ outcome[j].call \in {"result", "download"}
            /\ \A i \in 1..Len(log[j]) : Stage(log[j][i]) # 4

\* One job's download of result_file_url was refused, the other one's
\* output had no payload: both have failed.
C26_Witness ==
    /\ NoPayload("j1")
    /\ waitSt["j1"].download = "h400"
    /\ NoPayload("j2")
    /\ waitSt["j2"].last.output = "other"
    /\ outcome["j1"].state = "failed"
    /\ outcome["j2"].state = "failed"

\* The place of a job's suspension point in its lifecycle.  The attempts and
\* sleeps of one network call, and the polls and sleeps of one wait, share
\* a place.
Rank(p) ==
    CASE p = "idle" -> 0
      [] p = "run" -> 1
      [] p = "queued" -> 2
      [] p = "started_mail" -> 3
      [] p \in {"fetching", "backoff", "status", "poll_sleep"} -> 4
      [] p = "download" -> 5
      [] p = "success_mail" -> 6
      [] OTHER -> 7

\* C27: no job is retried as a whole and no state of a job is entered again:
\* the submit operation is started at most once (its attempts are those of
\* one call: one in the pull variant, at most INFERENCE_RETRIES in the inline
\* variant), a job never moves back in its lifecycle, and once it has ended,
\* Failed or Completed, no further external call or mail send is made for it.
C27_NoLifecycleRetry ==
    /\ [](\A j \in Jobs :
            Count(log[j], "submit") <= (IF variant = "pull" THEN 1 ELSE retries))
    /\ [][\A j \in Jobs :
            /\ Rank(pc'[j]) >= Rank(pc[j])
            /\ (Rank(pc'[j]) = Rank(pc[j]) /\ pc'[j] # pc[j]) => Rank(pc[j]) = 4
            /\ pc[j] = "done" =>
                  /\ log'[j] = log[j]
                  /\ fetchSt'[j] = fetchSt[j]
                  /\ waitSt'[j] = waitSt[j]
                  /\ outcome'[j] = outcome[j]
                  /\ resp'[j] = resp[j]]_vars

\* A job has failed after the last attempt of its one call and the other
\* job has completed: both have ended.
C27_Witness ==
    /\ variant = "inline"
    /\ retries = 2
    /\ pc = [j \in Jobs |-> "done"]
    /\ outcome["j1"].state = "failed"
    /\ Count(log["j1"], "submit") = 2
    /\ outcome["j2"] = Completed

Stored(t) == TEMP_FILES[t] # NoEntry

Due(t) == Stored(t) /\ TEMP_FILES[t].expiresAt <= now

\* C28: an entry of the store is removed only by the sweep and only when its
\* expiry has passed (expiresAt <= now): a step that removes an entry is a
\* sweep, which removes every expired entry and changes nothing else; no
\* step changes a stored entry otherwise; and serving a token leaves the
\* store as it is, answering with the entry each time the token is unexpired.
C28_OnlySweepRemoves ==
    [][/\ \A t \in Tokens :
            Stored(t) => TEMP_FILES'[t] \in {TEMP_FILES[t], NoEntry}
       /\ (\E t \in Tokens : Stored(t) /\ TEMP_FILES'[t] = NoEntry) =>
            /\ \A u \in Tokens :
                  TEMP_FILES'[u] = (IF Due(u) THEN NoEntry ELSE TEMP_FILES[u])
            /\ UNCHANGED <<now, pc, req, resp, jobId, log, outcome, tmpRes>>
       /\ tmpRes' # tmpRes =>
            /\ TEMP_FILES' = TEMP_FILES
            /\ (Stored(tmpRes'.token) /\ ~Due(tmpRes'.token)) =>
                  /\ tmpRes'.code = 200
                  /\ tmpRes'.body = TEMP_FILES'[tmpRes'.token].buffer]_vars

\* Two files were stored; the expired one has been swept, the other one is
\* still stored and has just been served.
C28_Witness ==
    /\ \A j \in Jobs : "put" \in Range(log[j])
    /\ \E t, u \in Tokens :
          /\ ~Stored(t)
          /\ Stored(u)
          /\ TEMP_FILES[u].expiresAt > now
          /\ tmpRes.token = u
          /\ tmpRes.code = 200
          /\ tmpRes.at = now
    /\ now >= TEMP_TTL_MS

\* The jobs whose file was stored under the token.
OwnersOf(t) == {j \in Jobs : sent[j].kind = "run" /\ sent[j].token = t}

\* The entry is the file of the job's request as putTempFile stores it.
FileOf(entry, j) ==
    /\ entry.buffer = req[j].file.buffer
    /\ entry.filename = (IF req[j].file.originalname = "" THEN "input.xlsx"
                         ELSE req[j].file.originalname)
    /\ entry.mime = (IF req[j].file.mimetype = "" THEN "application/octet-stream"
                     ELSE req[j].file.mimetype)

\* C29: under every interleaving of the jobs' putTempFile calls, the lookups
\* of tokens and the sweeps, a stored entry is the file of the one job that
\* stored it, no step changes or removes an entry that has not expired, and
\* each lookup of an unexpired token answers with the buffer, the filename
\* and the MIME type stored under it.
C29_StoreIsolation ==
    /\ [](\A t \in Tokens :
            Stored(t) => \E j \in Jobs : OwnersOf(t) = {j} /\ FileOf(TEMP_FILES[t], j))
    /\ [][\A t \in Tokens :
            /\ (Stored(t) /\ ~Due(t)) => TEMP_FILES'[t] = TEMP_FILES[t]
            /\ (tmpRes' # tmpRes /\ tmpRes'.token = t /\ Stored(t) /\ ~Due(t)) =>
                  \E j \in OwnersOf(t) :
                      /\ tmpRes'.code = 200
                      /\ FileOf([buffer |-> tmpRes'.body, filename |-> tmpRes'.filename,
                                 mime |-> tmpRes'.mime], j)]_vars

\* Both jobs' files are stored and unexpired, and the second job's token has
\* just been looked up: the answer is the second job's buffer.
C29_Witness ==
    /\ \A t \in Tokens : Stored(t) /\ ~Due(t)
    /\ sent["j2"].kind = "run"
    /\ tmpRes.token = sent["j2"].token
    /\ tmpRes.at = now
    /\ tmpRes.body = req["j2"].file.buffer
    /\ now > 0

\* C30: the request a job submits to the external service carries the job's
\* validated mapping, with bullet_points as the validated non-empty
\* sequence, the selected model identifiers, and the file: the URL of the
\* job's stored file in the pull variant, the file's content in the inline
\* variant.
C30_RequestCarriesMapping ==
    \A j \in Jobs :
        "submit" \in Range(log[j]) =>
            LET body == sent[j]
                m == req[j].mapping
            IN  /\ body.kind = (IF variant = "pull" THEN "run" ELSE "inference")
                /\ "mapping" \in DOMAIN body
                /\ body.mapping.product_images = m.product_images
                /\ body.mapping.title = m.title
                /\ body.mapping.description = m.description
                /\ body.mapping.bullet_points = AsSequence(m.bullet_points)
                /\ body.mapping.bullet_points # <<>>
                /\ IF variant = "pull"
                   THEN /\ body.models = req[j].models
                        /\ OwnersOf(body.token) = {j}
                   ELSE /\ body.models_list = modelsOf("inline", req[j])
                        /\ body.xlsx_base64 = req[j].file.buffer

\* The call of fetchJsonWithRetry made for the job has begun.
Called(j) == fetchSt[j].attempt # 0

\* C31: fetchJsonWithRetry with INFERENCE_RETRIES = N >= 1 makes at least one
\* and at most N attempts; it sleeps only between two attempts, never after
\* the N-th; and when all N attempts fail with retryable failures the call
\* throws the error of the N-th attempt.
C31_AttemptBounds ==
    \A j \in Jobs :
        Called(j) =>
            LET f == fetchSt[j]
            IN  /\ f.attempt \in 1..retries
                /\ f.sleeps = (IF pc[j] = "backoff" THEN f.attempt ELSE f.attempt - 1)
                /\ f.sleeps <= retries - 1
                /\ (f.attempt = retries /\ pc[j] # "fetching" /\ f.before
                        /\ Transient(f.last)) =>
                      /\ f.out = "threw"
                      /\ f.lastErr = AttemptError(f.last)
                      /\ f.lastErr # NoErr
                      /\ pc[j] = "done"
                      /\ outcome[j] = Failed("inference", f.last.id, retries)

\* Three attempts of three have failed, the last one with HTTP 503 after a
\* network failure or the like: the call has thrown after two sleeps.
C31_Witness ==
    /\ retries = 3
    /\ fetchSt["j1"].attempt = 3
    /\ fetchSt["j1"].before
    /\ fetchSt["j1"].last = Resp503
    /\ fetchSt["j1"].out = "threw"
    /\ fetchSt["j1"].sleeps = 2

\* The job's wait has ended.
WaitEnded(j) == waitSt[j].out \in {"returned", "threw", "timeout"}

\* C32: waitRunpod makes at least one status query before it ends, and it
\* honours a terminal status whatever the time: the wait times out only on a
\* non-terminal status, and a COMPLETED status seen after more than timeoutMs
\* still ends the wait with success, the job going on to its result and, with
\* the payload in the body, to the result mail.
C32_TerminalAfterBudget ==
    \A j \in Jobs :
        /\ WaitEnded(j) =>
              /\ Count(log[j], "poll") >= 1
              /\ waitSt[j].last # NoWait.last
        /\ waitSt[j].out = "timeout" => OtherStatus(j) /\ waitSt[j].elapsed > timeoutMs
        /\ Polled(j, {"COMPLETED"}) =>
              /\ waitSt[j].out = "returned"
              /\ "status_completed" \in Range(log[j])
              /\ waitSt[j].last.output = "base64" =>
                    /\ "mail_success" \in Range(log[j])
                    /\ outcome[j].state \in {"none", "completed", "mail_failed"}
        /\ Polled(j, FailureStatuses) => waitSt[j].out = "threw"

\* COMPLETED was seen when more than timeoutMs had passed, and the job has
\* completed with its result mailed.
C32_Witness ==
    \E j \in Jobs :
        /\ Polled(j, {"COMPLETED"})
        /\ waitSt[j].elapsed > timeoutMs
        /\ outcome[j] = Completed

\* The job's run request has been sent: it names the token of the file URL.
RunSent(j) == sent[j].kind = "run"

\* The entry under the token is stored and its expiry is later than t.
Unexpired(token, t) == Stored(token) /\ t < TEMP_FILES[token].expiresAt

\* C33: in the pull variant the job's file is in the store before the run
\* request is sent, no step removes or changes it before its expiry, the
\* steps that end the job included, and every fetch of the job's file URL
\* made after the run request and before the expiry finds the entry: the
\* step that sends the run request has put the file under a free token with
\* expiresAt = now + TEMP_TTL_MS, the put coming first; while now is less
\* than expiresAt the entry and the token the job sent stay as they are; a
\* lookup of the token in that time answers 200 with the job's file.
C33_FileOutlivesRun ==
    /\ [][\A j \in Jobs :
            (~RunSent(j) /\ RunSent(j)') =>
                LET t == sent'[j].token
                IN  /\ ~Stored(t)
                    /\ TEMP_FILES'[t] # NoEntry
                    /\ TEMP_FILES'[t].buffer = req'[j].file.buffer
                    /\ TEMP_FILES'[t].filename \in {req'[j].file.originalname, "input.xlsx"}
                    /\ TEMP_FILES'[t].mime \in {req'[j].file.mimetype,
                                                "application/octet-stream"}
                    /\ TEMP_FILES'[t].expiresAt = now + TEMP_TTL_MS
                    /\ log'[j] = <<"put", "submit">>]_vars
    /\ [][\A j \in Jobs :
            (RunSent(j) /\ Unexpired(sent[j].token, now')) =>
                /\ sent'[j] = sent[j]
                /\ TEMP_FILES'[sent[j].token] = TEMP_FILES[sent[j].token]]_vars
    /\ [][\A j \in Jobs :
            (RunSent(j) /\ Unexpired(sent[j].token, now) /\ tmpRes' # tmpRes
               /\ tmpRes'.token = sent[j].token) =>
                /\ tmpRes'.code = 200
                /\ tmpRes'.at = now
                /\ tmpRes'.body = req[j].file.buffer]_vars

\* The job has failed after its run request was accepted, time has passed,
\* and a fetch of its file URL made now, before the expiry, has found the file.
C33_Witness ==
    /\ RunSent("j1")
    /\ pc["j1"] = "done"
    /\ outcome["j1"].state = "failed"
    /\ outcome["j1"].call = "wait"
    /\ now > 0
    /\ Unexpired(sent["j1"].token, now)
    /\ tmpRes.token = sent["j1"].token
    /\ tmpRes.at = now
    /\ tmpRes.code = 200

=============================================================================
